---- MODULE Spec2Model ----
(***************************************************************************)
(* A model of the android-emulator-api orchestration core: the device      *)
(* registry (DeviceManager), the route simulator and the screenshot retry  *)
(* engine (ActionEngine), the boot wait (EmulatorManager.waitForBoot), the *)
(* dialog interceptor (handleSystemDialogs) and the cleanup coordinator    *)
(* (deviceService.cleanupAll / startEmulator and the wipe-once flag).      *)
(*                                                                         *)
(* Node runs the program on one thread: every stretch of code between two  *)
(* suspension points (an await, a timer, a child-process event) is one     *)
(* atomic action here; the interleaving of those stretches is Next.        *)
(* Each component has its own variables and its own specification, which   *)
(* leaves the other components idle.                                       *)
(***************************************************************************)
EXTENDS Integers, Sequences, FiniteSets, TLC

(***************************************************************************)
(* Bounds of the model (not program constants).                            *)
(***************************************************************************)
MaxDevices == 2     \* ids the uuid generator hands out in one run
MaxClock == 1       \* values of the wall clock beyond 0
MaxRouteCalls == 2  \* simulateRoute calls in one run
MaxPoints == 2      \* longest waypoint list
MaxTicks == 3       \* ticks one route timer fires in one run
MaxBytes == 2       \* largest screenshot, in bytes
MaxTimeout == 4     \* largest timeout handed to waitForBoot, in seconds
MaxDelay == 1       \* longest run of one probe, and lateness of a timer, in seconds
MaxOut == 2         \* longest output of one probe, in characters
MaxCleanups == 2    \* cleanupAll calls in one run
MaxSerials == 1     \* emulators `adb devices` lists
MaxNodes == 3       \* most node elements in one UI dump
MaxFailures == 1    \* most child processes of one cleanupAll run that fail
MaxRegisters == 3   \* most register calls before invalid payloads stop coming
MaxDump == 3        \* longest UI dump, in text pieces
MaxBootPolls == 2   \* probes one startEmulator call makes before its timeout
MaxErr == 2         \* longest stderr output of one adb run, in pieces
MaxOverlap == 2     \* updateProxy calls for one device that overlap
MaxProcs == 3       \* emulator processes EmulatorManager spawns
MaxStops == 2       \* stopEmulator calls

VARIABLES
    \* ---- DeviceManager (src/src/devices/deviceManager.js)
    devices,        \* this.devices: id -> device record
    usedIds,        \* ids uuidv4() has produced so far
    now,            \* the wall clock (Date.now(), new Date())
    lastStored,     \* history: id -> record last written by register/update
    dmRet,          \* outcome of the last DeviceManager call
    \* ---- ActionEngine.simulateRoute (src/src/actions/actionEngine.js)
    rtTask,         \* call k -> the closure of that call (points, loop, idx, ...)
    rtHandles,      \* device.tasks.route: taskId -> timer handle
    rtTimers,       \* the interval timers that are set and not cleared
    rtFixes,        \* call k -> the waypoints it handed to setGPS, in order
    \* ---- ActionEngine.screenshotStream (actionEngine.js and its MAX_RETRIES=3 revision)
    shRev,          \* which revision of screenshotStream is loaded
    shInv,          \* the invocations of screenshotStream one call has started
    \* ---- EmulatorManager.waitForBoot (src/src/services/emulatorService.js)
    wbPc,           \* where the call stands: idle, probing, sleeping, done
    wbTimeout,      \* the timeout argument, in seconds
    wbStart,        \* const start = Date.now()
    wbNow,          \* Date.now() as the call last read it, in seconds
    wbProbes,       \* history: the probes that closed, [code, out] each
    wbRes,          \* the call's result: none, true, Timeout
    \* ---- handleSystemDialogs (src/utils/dialogHandler.js, three revisions)
    dlgRev,         \* which revision of handleSystemDialogs is loaded
    dlg,            \* the one call: position, dump read, commands issued, result
    \* ---- deviceService (src/src/services/deviceService.js)
    wipeFlag,       \* whether .state/wipe-once.flag exists
    svcArms,        \* history: how often setWipeOnceFlag wrote the flag file
    svcStarts,      \* history: the startEmulator calls, in order
    svcPm2,         \* whether PM2_APP_NAME is set in the environment
    svcRet,         \* history: the register call made last, its payload and outcome
    cuCalls,        \* how many cleanupAll calls were made
    cu,             \* the cleanupAll call in flight, or the last one
    \* ---- android.clickByText (src/src/platforms/android.js, two revisions)
    ckRev,          \* which revision of clickByText is loaded
    ck,             \* the one call: position, arguments, dump, taps issued, result
    \* ---- ActionEngine (src/src/actions/actionEngine.js)
    ae,             \* the operation dispatched last: position, calls made, outcome
    aeTask,         \* the route task simulateRoute started
    \* ---- EmulatorManager.startEmulator (src/src/services/emulatorService.js)
    em,             \* the one startEmulator call: position, port, events so far
    emHist,         \* history: id -> how the record of a spawned emulator came about
    \* ---- running adb (android.js, deviceService.js, emulatorService.js)
    adbCall,        \* the one adb invocation: who ran it, what the child did, result
    \* ---- deviceService.updateProxy
    up,             \* the one updateProxy call: arguments, outcome, adb commands
    \* ---- the force kills of stopAllEmulators and cleanupAll
    kl,             \* the process table and how far the kill commands have run
    \* ---- updateProxy calls that overlap
    px,             \* the applyProxy of each call and the device's proxy settings
    \* ---- EmulatorManager.processes (src/src/services/emulatorService.js)
    mg              \* the spawned processes, this.processes, the stopEmulator call

regVars == <<devices, usedIds, lastStored, dmRet>>
routeVars == <<rtTask, rtHandles, rtTimers, rtFixes>>
shotVars == <<shRev, shInv>>
dlgVars == <<dlgRev, dlg>>
clickVars == <<ckRev, ck>>
engineVars == <<ae, aeTask>>
svcVars == <<wipeFlag, svcArms, svcStarts, svcPm2, svcRet, cuCalls, cu>>
bootVars == <<wbPc, wbTimeout, wbStart, wbNow, wbProbes, wbRes>>
startVars == <<em, emHist>>
\* the components that come after the action engine
lateVars == <<adbCall, up, kl, px, mg>>
restVars == <<startVars, lateVars>>

vars == <<regVars, now, routeVars, shotVars, bootVars, dlgVars, svcVars, clickVars, engineVars,
         restVars>>

(***************************************************************************)
(* Values                                                                  *)
(***************************************************************************)
Ids == 1..MaxDevices
Platforms == {"android", "ios"}
NoVal == "null"
\* a platform that is missing, or none that register() knows
InvalidPlatforms == {NoVal, "windows"}
Proxies == {"http://proxy-a:8080"}
Serials == {"emulator-5554"}
\* ports an emulator is started on; register() draws its own at random
Ports == {5554, 5556}
RegisterPorts == {5554}
\* `emulator-${port}`
serialOf(port) == "emulator-" \o ToString(port)
Metas == {[deviceId |-> s] : s \in Serials \cup {NoVal}}

\* The value get() hands back for an unknown id (JavaScript null).
NullDevice ==
    [id |-> 0, platform |-> NoVal, proxy |-> NoVal, status |-> NoVal,
     session |-> NoVal, tasks |-> NoVal, meta |-> [deviceId |-> NoVal],
     createdAt |-> 0]

DeviceFields ==
    {"id", "platform", "proxy", "status", "session", "tasks", "meta", "createdAt"}

\* Patches update() is given: any subset of the mutable fields.
Patches ==
    {[proxy |-> p] : p \in Proxies}
    \cup {[status |-> "busy"], [proxy |-> NoVal, status |-> "ready"]}
    \cup {[meta |-> m] : m \in Metas}

(***************************************************************************)
(* DeviceManager                                                           *)
(***************************************************************************)
\* A slip in register(): every record gets the same id.
NewDeviceSameId(id, platform, proxy, meta, t) ==
    [id |-> 1, platform |-> platform, proxy |-> proxy, status |-> "ready",
     session |-> "{}", tasks |-> "{}", meta |-> meta, createdAt |-> t]

\* register(): the record built from the payload, `proxy || null`, `meta || {}`.
NewDevice(id, platform, proxy, meta, t) ==
    [id |-> id, platform |-> platform, proxy |-> proxy, status |-> "ready",
     session |-> "{}", tasks |-> "{}", meta |-> meta, createdAt |-> t]

\* get(id): this.devices.get(id) || null
get(devs, id) == IF id \in DOMAIN devs THEN devs[id] ELSE NullDevice

\* { ...d, ...patch }: the patch's fields win, the others are kept.
Merge(d, patch) ==
    [f \in DeviceFields |-> IF f \in DOMAIN patch THEN patch[f] ELSE d[f]]

\* this.devices.set(id, rec)
MapSet(devs, id, rec) ==
    [k \in DOMAIN devs \cup {id} |-> IF k = id THEN rec ELSE devs[k]]

\* A slip in update(): the merged record is returned but never stored.
updateMapNotStored(devs, id, patch) == devs

\* update(id, patch): the registry after the call.
updateMap(devs, id, patch) ==
    IF get(devs, id) = NullDevice THEN devs
    ELSE MapSet(devs, id, Merge(get(devs, id), patch))

\* ensure(id): throws Error('Device not found') for an unknown id.
ensure(devs, id) ==
    IF get(devs, id) = NullDevice
    THEN [outcome |-> "throw", error |-> "Device not found", value |-> NullDevice]
    ELSE [outcome |-> "return", error |-> NoVal, value |-> get(devs, id)]

EmptyMap == [k \in {} |-> NullDevice]
IdleRet == [op |-> "none", id |-> 0, outcome |-> "none", error |-> NoVal,
            value |-> NullDevice]

RegIdle ==
    /\ devices = EmptyMap
    /\ usedIds = {}
    /\ now = 0
    /\ lastStored = EmptyMap
    /\ dmRet = IdleRet

(***************************************************************************)
(* ActionEngine.simulateRoute: one interval timer per call; each firing of *)
(* the timer runs tick() up to its await of ctrl.setGPS, and the rest of   *)
(* tick() runs when that setGPS settles.  The timer does not wait for a    *)
(* tick that is still awaiting.                                            *)
(***************************************************************************)
RouteCalls == 1..MaxRouteCalls
NoTask == [state |-> "none", taskId |-> 0, n |-> 0, loop |-> FALSE, idx |-> 0,
           pending |-> 0, fired |-> 0, failed |-> FALSE]

RouteIdle ==
    /\ rtTask = [k \in RouteCalls |-> NoTask]
    /\ rtHandles = [t \in {} |-> 0]
    /\ rtTimers = {}
    /\ rtFixes = [k \in RouteCalls |-> <<>>]

\* clearInterval(device.tasks.route[taskId])
clearInterval(timers, handles, taskId) ==
    IF taskId \in DOMAIN handles THEN timers \ {handles[taskId]} ELSE timers

\* tick(), line 98-100: what the synchronous part of a tick does.
\*   "noop"  the point list is empty: return
\*   "throw" points[idx] is undefined, p.lat throws, the catch clears the timer
\*   "fix"   setGPS(points[idx]) is called and awaited
tickStart(t) ==
    IF t.n = 0 THEN "noop"
    ELSE IF t.idx >= t.n THEN "throw"
    ELSE "fix"

\* tick(), line 101-104: the cursor after a setGPS that resolved.
idxAfter(t) ==
    IF t.idx + 1 >= t.n /\ t.loop THEN 0 ELSE t.idx + 1

\* tick(), line 102-103: whether the tick clears the timer after setGPS resolved.
cancelsAfter(t) == t.idx + 1 >= t.n /\ ~t.loop

\* simulateRoute(deviceId, {points, intervalMs, loop}), line 89-112
SimulateRoute(k, n, loop) ==
    /\ rtTask[k].state = "none"
    /\ \A j \in RouteCalls : j < k => rtTask[j].state # "none"
    /\ rtTask' = [rtTask EXCEPT ![k] =
                    [NoTask EXCEPT !.state = "started", !.taskId = now,
                                   !.n = n, !.loop = loop]]
    /\ rtHandles' = [t \in DOMAIN rtHandles \cup {now} |->
                        IF t = now THEN k ELSE rtHandles[t]]
    /\ rtTimers' = rtTimers \cup {k}
    /\ UNCHANGED <<rtFixes, now, regVars, shotVars, bootVars, dlgVars, svcVars, clickVars, engineVars, restVars>>

\* The interval timer of call k fires: tick() up to its first await.
TickFire(k) ==
    /\ k \in rtTimers
    /\ rtTask[k].fired < MaxTicks
    /\ LET t == rtTask[k] IN
       /\ rtTask' = [rtTask EXCEPT ![k].fired = t.fired + 1,
                                    ![k].pending =
                                        IF tickStart(t) = "fix"
                                        THEN t.pending + 1 ELSE t.pending]
       /\ rtFixes' = IF tickStart(t) = "fix"
                     THEN [rtFixes EXCEPT ![k] = Append(@, t.idx)]
                     ELSE rtFixes
       /\ rtTimers' = IF tickStart(t) = "throw"
                      THEN clearInterval(rtTimers, rtHandles, t.taskId)
                      ELSE rtTimers
    /\ UNCHANGED <<rtHandles, now, regVars, shotVars, bootVars, dlgVars, svcVars, clickVars, engineVars, restVars>>

\* A setGPS awaited by a tick of call k resolves: the rest of tick().
SetGPSResolves(k) ==
    /\ rtTask[k].pending > 0
    /\ LET t == rtTask[k] IN
       /\ rtTask' = [rtTask EXCEPT ![k].pending = t.pending - 1,
                                    ![k].idx = idxAfter(t)]
       /\ rtTimers' = IF cancelsAfter(t)
                      THEN clearInterval(rtTimers, rtHandles, t.taskId)
                      ELSE rtTimers
    /\ UNCHANGED <<rtHandles, rtFixes, now, regVars, shotVars, bootVars, dlgVars, svcVars, clickVars, engineVars, restVars>>

\* A setGPS awaited by a tick of call k rejects: the catch clears the timer.
SetGPSRejects(k) ==
    /\ rtTask[k].pending > 0
    /\ LET t == rtTask[k] IN
       /\ rtTask' = [rtTask EXCEPT ![k].pending = t.pending - 1,
                                    ![k].failed = TRUE]
       /\ rtTimers' = clearInterval(rtTimers, rtHandles, t.taskId)
    /\ UNCHANGED <<rtHandles, rtFixes, now, regVars, shotVars, bootVars, dlgVars, svcVars, clickVars, engineVars, restVars>>

\* Date.now() moves on.
ClockTick ==
    /\ now < MaxClock
    /\ now' = now + 1
    /\ UNCHANGED <<regVars, routeVars, shotVars, bootVars, dlgVars, svcVars, clickVars, engineVars, restVars>>

SimulateRouteCall ==
    \E k \in RouteCalls, n \in 0..MaxPoints, loop \in BOOLEAN :
        SimulateRoute(k, n, loop)
TickFires == \E k \in RouteCalls : TickFire(k)
GPSResolves == \E k \in RouteCalls : SetGPSResolves(k)
GPSRejects == \E k \in RouteCalls : SetGPSRejects(k)

NextRoute ==
    \/ SimulateRouteCall
    \/ TickFires
    \/ GPSResolves
    \/ GPSRejects
    \/ ClockTick

(***************************************************************************)
(* ActionEngine.screenshotStream.  Two revisions are in the repository:    *)
(*   "head"  src/src/actions/actionEngine.js (MAX_RETRIES = 2): the        *)
(*           preflight is retried, a failed capture is not;                *)
(*   "rev3"  src/unnamed/part_001 (MAX_RETRIES = 3): the preflight and the *)
(*           capture are retried, from the 'close' and the 'error'         *)
(*           handler of the capture process alike.                         *)
(* One call starts invocation 1 (retryCount 0); a retry is a further       *)
(* invocation with retryCount + 1 whose promise the retrying one adopts.   *)
(***************************************************************************)
Revisions == {"head", "rev3"}
MAX_RETRIES_HEAD == 2
MAX_RETRIES_REV3 == 3

\* The largest retryCount from which a retry is still started, plus one:
\* `retryCount < MAX_RETRIES` (head), `retryCount < MAX_RETRIES - 1` (rev3).
retryLimit(rev) == IF rev = "head" THEN MAX_RETRIES_HEAD ELSE MAX_RETRIES_REV3 - 1

PreflightOutcomes == {"pass", "notReady"}
\* What the capture process does: "data" exit 0 with bytes, "zero" exit 0
\* without a byte, "exit" a non-zero exit code.
CaptureOutcomes == {"data", "zero", "exit"}

NewInv(r, parent) ==
    [r |-> r, parent |-> parent, pc |-> "preflight", pre |-> "none",
     cap |-> "none", errored |-> FALSE, bytes |-> 0, timers |-> 0,
     res |-> "pending", child |-> 0,
     dialogs |-> 0, dlg |-> "none", capAt |-> "none", wait |-> 0]

ShotIdle ==
    /\ shRev = "head"
    /\ shInv = <<>>

\* The promise of invocation i, followed through the retries it adopted.
RECURSIVE Outcome(_, _)
Outcome(inv, i) ==
    IF inv[i].res = "follows" THEN Outcome(inv, inv[i].child) ELSE inv[i].res

\* The invocation whose promise decides invocation i's.
RECURSIVE Last(_, _)
Last(inv, i) == IF inv[i].res = "follows" THEN Last(inv, inv[i].child) ELSE i

\* The delay before the retry the preflight catch starts, in ms:
\*  head: setTimeout(resolve, 2000); rev3: 2000 * (retryCount + 1).
preflightDelay(rev, r) == IF rev = "head" THEN 2000 ELSE 2000 * (r + 1)
\* The delay before the retry a capture handler of rev3 starts:
\* setTimeout(..., 1000).
captureDelay(rev, r) == 1000

\* The preflight try after its probes passed.
\*  head: handleSystemDialogs(serial) is called and not awaited; the capture
\*        command is started in the same turn.
\*  rev3: `await handleSystemDialogs(serial)`.
preflightPassed(rev, v) ==
    IF rev = "head"
    THEN [v EXCEPT !.dialogs = @ + 1, !.dlg = "running", !.pc = "capture",
                   !.capAt = "running"]
    ELSE [v EXCEPT !.dialogs = @ + 1, !.dlg = "running", !.pc = "dialogs"]

\* The catch of the preflight try: retry while retryCount is below the limit,
\* else throw 'not responding'.
preflightFailed(rev, v) ==
    IF v.r < retryLimit(rev)
    THEN [v EXCEPT !.pc = "backoff", !.wait = preflightDelay(rev, v.r)]
    ELSE [v EXCEPT !.pc = "done", !.res = "rejected"]

\* A capture failure seen by a handler of the capture process.
\*  head: stream.emit('error', error) on a PassThrough nobody listens to throws
\*        out of the handler; reject(error) on the next line is not reached.
\*  rev3: a retry is scheduled (setTimeout 1000) while retryCount is below the
\*        limit, else the promise is rejected (a no-op if it already is settled).
captureFailed(rev, v) ==
    IF rev = "head"
    THEN [v EXCEPT !.res = IF v.res = "pending" THEN "uncaught" ELSE v.res]
    ELSE IF v.r < retryLimit(rev)
         THEN [v EXCEPT !.timers = v.timers + 1, !.wait = captureDelay(rev, v.r)]
         ELSE [v EXCEPT !.res = IF v.res = "pending" THEN "rejected" ELSE v.res]

\* screenshotStream(deviceId): the call from the route handler.
ShCall ==
    /\ shInv = <<>>
    /\ shInv' = <<NewInv(0, 0)>>
    /\ UNCHANGED <<shRev, now, regVars, routeVars, bootVars, dlgVars, svcVars, clickVars, engineVars, restVars>>

\* The preflight of invocation i settles.
Preflight(i, out) ==
    /\ shInv[i].pc = "preflight"
    /\ shInv' = [shInv EXCEPT ![i] =
                    IF out = "pass"
                    THEN preflightPassed(shRev, [@ EXCEPT !.pre = out])
                    ELSE preflightFailed(shRev, [@ EXCEPT !.pre = out])]
    /\ UNCHANGED <<shRev, now, regVars, routeVars, bootVars, dlgVars, svcVars, clickVars, engineVars, restVars>>

\* handleSystemDialogs of invocation i resolves with its boolean; the value is
\* used for nothing but the pause of rev3.
\*  head: nobody waits for it.
\*  rev3: true is followed by a 1000 ms pause, false by the capture command.
DialogsSettle(i, handled) ==
    /\ shInv[i].dlg = "running"
    /\ shInv' = [shInv EXCEPT ![i] =
                    IF shRev = "head" THEN [@ EXCEPT !.dlg = "settled"]
                    ELSE IF handled THEN [@ EXCEPT !.dlg = "settled", !.pc = "pause"]
                    ELSE [@ EXCEPT !.dlg = "settled", !.pc = "capture",
                                   !.capAt = "settled"]]
    /\ UNCHANGED <<shRev, now, regVars, routeVars, bootVars, dlgVars, svcVars, clickVars, engineVars, restVars>>

\* rev3: the pause after a handled dialog ends, the capture command starts.
DialogPauseEnds(i) ==
    /\ shInv[i].pc = "pause"
    /\ shInv' = [shInv EXCEPT ![i].pc = "capture", ![i].capAt = shInv[i].dlg]
    /\ UNCHANGED <<shRev, now, regVars, routeVars, bootVars, dlgVars, svcVars, clickVars, engineVars, restVars>>

\* The backoff delay of the preflight catch ends:
\* `return this.screenshotStream(deviceId, retryCount + 1)`.
BackoffEnds(i) ==
    /\ shInv[i].pc = "backoff"
    /\ shInv' = Append([shInv EXCEPT ![i].pc = "done", ![i].res = "follows",
                                     ![i].child = Len(shInv) + 1],
                       NewInv(shInv[i].r + 1, i))
    /\ UNCHANGED <<shRev, now, regVars, routeVars, bootVars, dlgVars, svcVars, clickVars, engineVars, restVars>>

\* The capture process of invocation i emits 'error' (it could not be spawned);
\* its 'close' follows.
ProcError(i) ==
    /\ shInv[i].pc = "capture"
    /\ ~shInv[i].errored
    /\ shInv' = [shInv EXCEPT ![i] = captureFailed(shRev, [@ EXCEPT !.errored = TRUE])]
    /\ UNCHANGED <<shRev, now, regVars, routeVars, bootVars, dlgVars, svcVars, clickVars, engineVars, restVars>>

\* The capture process of invocation i emits 'close'.
ProcClose(i, out, n) ==
    /\ shInv[i].pc = "capture"
    /\ shInv[i].errored => out = "exit"
    /\ (out = "data") <=> (n > 0)
    /\ shInv' = [shInv EXCEPT ![i] =
                    IF out = "data"
                    THEN [@ EXCEPT !.cap = out, !.bytes = n, !.pc = "done",
                                   !.res = IF @ = "pending" THEN "resolved" ELSE @]
                    ELSE captureFailed(shRev, [@ EXCEPT !.cap = out, !.pc = "done"])]
    /\ UNCHANGED <<shRev, now, regVars, routeVars, bootVars, dlgVars, svcVars, clickVars, engineVars, restVars>>

\* A retry timer set by a capture handler of invocation i fires:
\* `resolve(this.screenshotStream(deviceId, retryCount + 1))`.
RetryTimerFires(i) ==
    /\ shInv[i].timers > 0
    /\ shInv' = Append([shInv EXCEPT ![i].timers = @ - 1,
                                     ![i].res = IF @ = "pending" THEN "follows" ELSE @,
                                     ![i].child = IF shInv[i].res = "pending"
                                                  THEN Len(shInv) + 1 ELSE @],
                       NewInv(shInv[i].r + 1, i))
    /\ UNCHANGED <<shRev, now, regVars, routeVars, bootVars, dlgVars, svcVars, clickVars, engineVars, restVars>>

PreflightSettles ==
    \E i \in DOMAIN shInv, out \in PreflightOutcomes : Preflight(i, out)
BackoffTimerFires == \E i \in DOMAIN shInv : BackoffEnds(i)
DialogsResolve == \E i \in DOMAIN shInv, handled \in BOOLEAN : DialogsSettle(i, handled)
DialogPauseFires == \E i \in DOMAIN shInv : DialogPauseEnds(i)
CaptureErrors == \E i \in DOMAIN shInv : ProcError(i)
CaptureCloses ==
    \E i \in DOMAIN shInv, out \in CaptureOutcomes, n \in 0..MaxBytes :
        ProcClose(i, out, n)
CaptureRetryFires == \E i \in DOMAIN shInv : RetryTimerFires(i)

NextShot ==
    \/ ShCall
    \/ PreflightSettles
    \/ DialogsResolve
    \/ DialogPauseFires
    \/ BackoffTimerFires
    \/ CaptureErrors
    \/ CaptureCloses
    \/ CaptureRetryFires

DM_Register(platform, proxy, meta) ==
    \E id \in Ids \ usedIds :
        LET d == NewDevice(id, platform, proxy, meta, now) IN
        /\ devices' = MapSet(devices, id, d)
        /\ usedIds' = usedIds \cup {id}
        /\ lastStored' = MapSet(lastStored, id, d)
        /\ dmRet' = [op |-> "register", id |-> id, outcome |-> "return",
                     error |-> NoVal, value |-> d]
        /\ UNCHANGED <<now, routeVars, shotVars, bootVars, dlgVars, svcVars, clickVars, engineVars, restVars>>

DM_Update(id, patch) ==
    /\ devices' = updateMap(devices, id, patch)
    /\ lastStored' = IF id \in DOMAIN devices
                     THEN MapSet(lastStored, id, Merge(devices[id], patch))
                     ELSE lastStored
    /\ dmRet' = [op |-> "update", id |-> id, outcome |-> "return", error |-> NoVal,
                 value |-> get(devices', id)]
    /\ UNCHANGED <<usedIds, now, routeVars, shotVars, bootVars, dlgVars, svcVars, clickVars, engineVars, restVars>>

DM_Get(id) ==
    /\ dmRet' = [op |-> "get", id |-> id, outcome |-> "return", error |-> NoVal,
                 value |-> get(devices, id)]
    /\ UNCHANGED <<devices, usedIds, now, lastStored, routeVars, shotVars, bootVars, dlgVars, svcVars, clickVars, engineVars, restVars>>

DM_Ensure(id) ==
    /\ dmRet' = [op |-> "ensure", id |-> id] @@ ensure(devices, id)
    /\ UNCHANGED <<devices, usedIds, now, lastStored, routeVars, shotVars, bootVars, dlgVars, svcVars, clickVars, engineVars, restVars>>

DM_Clear ==
    /\ devices' = EmptyMap
    /\ lastStored' = EmptyMap
    /\ dmRet' = [IdleRet EXCEPT !.op = "clear", !.outcome = "return"]
    /\ UNCHANGED <<usedIds, now, routeVars, shotVars, bootVars, dlgVars, svcVars, clickVars, engineVars, restVars>>

RegisterCall ==
    \E pf \in Platforms, p \in Proxies \cup {NoVal}, m \in Metas :
        DM_Register(pf, p, m)
UpdateCall == \E id \in Ids, patch \in Patches : DM_Update(id, patch)
GetCall == \E id \in Ids : DM_Get(id)
EnsureCall == \E id \in Ids : DM_Ensure(id)

NextRegistry ==
    \/ RegisterCall
    \/ UpdateCall
    \/ GetCall
    \/ EnsureCall
    \/ DM_Clear

(***************************************************************************)
(* EmulatorManager.waitForBoot (emulatorService.js:102-118) polls          *)
(* `getprop sys.boot_completed` through executeAdbCommand (140-165), which *)
(* resolves with the collected stdout on exit code 0 and rejects on every  *)
(* other exit code.  Time is counted in seconds.                           *)
(***************************************************************************)
PollSleep == 2     \* setTimeout(resolve, 2000)

Chars == {"1", "0", "\n"}
Whitespace == {"\n"}
\* What one probe can write to stdout.
RECURSIVE Strings(_)
Strings(n) ==
    IF n = 0 THEN {<<>>}
    ELSE Strings(n - 1) \cup
         {Append(s, c) : s \in {t \in Strings(n - 1) : Len(t) = n - 1}, c \in Chars}
ProbeOutputs == Strings(MaxOut)
ExitCodes == {0, 1}

\* String.prototype.trim()
RECURSIVE trimStart(_)
trimStart(s) ==
    IF s # <<>> /\ Head(s) \in Whitespace THEN trimStart(Tail(s)) ELSE s
RECURSIVE trimEnd(_)
trimEnd(s) ==
    IF s # <<>> /\ s[Len(s)] \in Whitespace
    THEN trimEnd(SubSeq(s, 1, Len(s) - 1)) ELSE s
trimNot(s) == s
trim(s) == trimEnd(trimStart(s))

\* executeAdbCommand: 'close' with code 0 resolves, any other code rejects.
executeAdbCommand(code, out) ==
    IF code = 0 THEN [settled |-> "resolved", value |-> out]
    ELSE [settled |-> "rejected", value |-> <<>>]

\* The body of the try in the loop: TRUE when the call returns true.
probeBooted(code, out) ==
    LET r == executeAdbCommand(code, out) IN
    r.settled = "resolved" /\ trim(r.value) = <<"1">>

\* while (Date.now() - start < timeout)
loopGoesOn(t, start, timeout) == t - start < timeout

BootIdle ==
    /\ wbPc = "idle"
    /\ wbTimeout = 0
    /\ wbStart = 0
    /\ wbNow = 0
    /\ wbProbes = <<>>
    /\ wbRes = "none"

\* waitForBoot(serial, timeout) up to its first await.
WaitForBoot(timeout) ==
    /\ wbPc = "idle"
    /\ wbTimeout' = timeout
    /\ wbStart' = wbNow
    /\ IF loopGoesOn(wbNow, wbNow, timeout)
       THEN wbPc' = "probing" /\ wbRes' = wbRes
       ELSE wbPc' = "done" /\ wbRes' = "Timeout"
    /\ UNCHANGED <<wbNow, wbProbes, now, regVars, routeVars, shotVars, dlgVars, svcVars, clickVars, engineVars, restVars>>

\* The probe closes d seconds after it was started.
ProbeCloses(code, out, d) ==
    /\ wbPc = "probing"
    /\ wbNow' = wbNow + d
    /\ wbProbes' = Append(wbProbes, [code |-> code, out |-> out])
    /\ IF probeBooted(code, out)
       THEN wbPc' = "done" /\ wbRes' = "true"
       ELSE wbPc' = "sleeping" /\ wbRes' = wbRes
    /\ UNCHANGED <<wbTimeout, wbStart, now, regVars, routeVars, shotVars, dlgVars, svcVars, clickVars, engineVars, restVars>>

\* The 2 s timer fires (e seconds late) and the loop condition is read again.
SleepEnds(e) ==
    /\ wbPc = "sleeping"
    /\ wbNow' = wbNow + PollSleep + e
    /\ IF loopGoesOn(wbNow', wbStart, wbTimeout)
       THEN wbPc' = "probing" /\ wbRes' = wbRes
       ELSE wbPc' = "done" /\ wbRes' = "Timeout"
    /\ UNCHANGED <<wbTimeout, wbStart, wbProbes, now, regVars, routeVars, shotVars, dlgVars, svcVars, clickVars, engineVars, restVars>>

WaitForBootCall == \E timeout \in 0..MaxTimeout : WaitForBoot(timeout)
ProbeSettles ==
    \E code \in ExitCodes, out \in ProbeOutputs, d \in 0..MaxDelay :
        ProbeCloses(code, out, d)
SleepTimerFires == \E e \in 0..MaxDelay : SleepEnds(e)

NextBoot ==
    \/ WaitForBootCall
    \/ ProbeSettles
    \/ SleepTimerFires

(***************************************************************************)
(* handleSystemDialogs (src/utils/dialogHandler.js).  Three revisions are  *)
(* in the repository:                                                      *)
(*   "v1"  src/unnamed/part_006:13-81: one marker, the dump is parsed for  *)
(*         a Wait node that is tapped; the catch taps at (540, 980) and    *)
(*         returns what that command gives; no cleanup;                    *)
(*   "v2"  src/unnamed/part_006:97-148: one marker, clickByText('Wait');   *)
(*   "v3"  src/unnamed/part_005:13-81: four markers, a list of buttons.    *)
(* The UI dump is a sequence of text pieces; String.includes is the test   *)
(* for a contiguous run of pieces.                                         *)
(***************************************************************************)
DialogRevisions == {"v1", "v2", "v3"}
Pieces == {"System UI ", "isn't responding", "com.android.systemui",
           "android:id/alertTitle", "Wait", "<node/>"}
RECURSIVE Dumps(_)
Dumps(n) ==
    IF n = 0 THEN {<<>>}
    ELSE Dumps(n - 1) \cup
         {Append(s, c) : s \in {t \in Dumps(n - 1) : Len(t) = n - 1}, c \in Pieces}

\* String.prototype.includes
Includes(s, m) ==
    \E i \in 1..(Len(s) - Len(m) + 1) : SubSeq(s, i, i + Len(m) - 1) = m

hasSystemDialogAlways(rev, xmlData) == TRUE
\* The marker test of each revision.
hasSystemDialog(rev, xmlData) ==
    IF rev = "v3"
    THEN \/ Includes(xmlData, <<"System UI ", "isn't responding">>)
         \/ Includes(xmlData, <<"isn't responding">>)
         \/ Includes(xmlData, <<"com.android.systemui">>)
         \/ Includes(xmlData, <<"android:id/alertTitle">>)
    ELSE Includes(xmlData, <<"System UI ", "isn't responding">>)

\* v1: allNodes.filter(el => el.text === "Wait" || el.contentDesc === "Wait")
waitNodes(xmlData) == Includes(xmlData, <<"Wait">>)

\* A slip: only the Wait button is tried.
buttonsToTryWaitOnly(rev) == <<"Wait">>
buttonsToTry(rev) ==
    IF rev = "v3" THEN <<"Wait", "OK", "Dismiss", "Close", "Yes", "No", "Cancel">>
    ELSE <<"Wait">>

NoDialog == [pc |-> "idle", read |-> FALSE, xmlData |-> <<>>, btn |-> 0,
             clicks |-> <<>>, res |-> "none", file |-> FALSE, failed |-> {}]

DialogIdle ==
    /\ dlgRev = "v3"
    /\ dlg = NoDialog

\* `return value` and, in v2 and v3, the finally block: the local dump file is
\* removed when it exists; a removal that fails is caught and logged.
returns(rev, d, value, unlinkOk) ==
    [d EXCEPT !.pc = "done", !.res = value,
              !.file = IF rev = "v1" THEN @ ELSE @ /\ ~unlinkOk,
              !.failed = IF rev # "v1" /\ d.file /\ ~unlinkOk
                         THEN @ \cup {"unlink"} ELSE @]

\* The outer catch.  v2, v3: return false.  v1: the tap at (540, 980) is
\* issued and awaited.
caught(rev, d, unlinkOk) ==
    IF rev = "v1"
    THEN [d EXCEPT !.pc = "fallback", !.clicks = Append(@, "tap 540 980")]
    ELSE returns(rev, d, "false", unlinkOk)

\* What follows the read of the dump, up to the next await.
afterRead(rev, d, boundsOk, unlinkOk) ==
    IF ~hasSystemDialog(rev, d.xmlData) THEN returns(rev, d, "false", unlinkOk)
    ELSE IF rev # "v1"
         THEN [d EXCEPT !.pc = "click", !.btn = 1,
                        !.clicks = Append(@, buttonsToTry(rev)[1])]
    ELSE IF ~waitNodes(d.xmlData) THEN returns(rev, d, "false", unlinkOk)
    ELSE IF ~boundsOk THEN caught(rev, [d EXCEPT !.failed = @ \cup {"parse"}], unlinkOk)
    ELSE [d EXCEPT !.pc = "tap", !.clicks = Append(@, "tap Wait")]

\* handleSystemDialogs(serial) up to the await of the uiautomator dump.
HandleSystemDialogs ==
    /\ dlg.pc = "idle"
    /\ dlg' = [dlg EXCEPT !.pc = "dump"]
    /\ UNCHANGED <<dlgRev, now, regVars, routeVars, shotVars, bootVars, svcVars, clickVars, engineVars, restVars>>

\* `adb shell uiautomator dump` settles.
DumpSettles(ok, unlinkOk) ==
    /\ dlg.pc = "dump"
    /\ dlg' = IF ok THEN [dlg EXCEPT !.pc = "pull"]
              ELSE caught(dlgRev, [dlg EXCEPT !.failed = @ \cup {"dump"}], unlinkOk)
    /\ UNCHANGED <<dlgRev, now, regVars, routeVars, shotVars, bootVars, svcVars, clickVars, engineVars, restVars>>

\* `adb pull` settles; readFileSync, the marker test and what follows it run
\* in the same turn.
PullSettles(ok, readOk, xmlData, boundsOk, unlinkOk) ==
    /\ dlg.pc = "pull"
    /\ dlg' =
         IF ~ok
         THEN caught(dlgRev, [dlg EXCEPT !.failed = @ \cup {"pull"}], unlinkOk)
         ELSE IF ~readOk
         THEN caught(dlgRev, [dlg EXCEPT !.file = TRUE, !.failed = @ \cup {"read"}],
                     unlinkOk)
         ELSE afterRead(dlgRev,
                        [dlg EXCEPT !.file = TRUE, !.read = TRUE, !.xmlData = xmlData],
                        boundsOk, unlinkOk)
    /\ UNCHANGED <<dlgRev, now, regVars, routeVars, shotVars, bootVars, svcVars, clickVars, engineVars, restVars>>

\* v2, v3: the clickByText of the current button settles.
ClickSettles(ok, unlinkOk) ==
    /\ dlg.pc = "click"
    /\ dlg' =
         IF ok THEN returns(dlgRev, dlg, "true", unlinkOk)
         ELSE LET d == [dlg EXCEPT !.failed = @ \cup {"click"}] IN
              IF dlg.btn < Len(buttonsToTry(dlgRev))
              THEN [d EXCEPT !.btn = @ + 1,
                             !.clicks = Append(@, buttonsToTry(dlgRev)[dlg.btn + 1])]
              ELSE returns(dlgRev, d, "false", unlinkOk)
    /\ UNCHANGED <<dlgRev, now, regVars, routeVars, shotVars, bootVars, svcVars, clickVars, engineVars, restVars>>

\* v1: the tap on the Wait node settles.
TapSettles(ok) ==
    /\ dlg.pc = "tap"
    /\ dlg' = IF ok THEN returns(dlgRev, dlg, "true", TRUE)
              ELSE caught(dlgRev, [dlg EXCEPT !.failed = @ \cup {"tap"}], TRUE)
    /\ UNCHANGED <<dlgRev, now, regVars, routeVars, shotVars, bootVars, svcVars, clickVars, engineVars, restVars>>

\* v1: the tap of the catch block settles: `return await execAsync(...)` gives
\* the {stdout, stderr} of the command or rejects with its error.
FallbackSettles(ok) ==
    /\ dlg.pc = "fallback"
    /\ dlg' = [dlg EXCEPT !.pc = "done",
                          !.res = IF ok THEN "execResult" ELSE "rejected"]
    /\ UNCHANGED <<dlgRev, now, regVars, routeVars, shotVars, bootVars, svcVars, clickVars, engineVars, restVars>>

DumpCommandSettles == \E ok \in BOOLEAN, unlinkOk \in BOOLEAN : DumpSettles(ok, unlinkOk)
PullCommandSettles ==
    \E ok \in BOOLEAN, readOk \in BOOLEAN, xmlData \in Dumps(MaxDump),
       boundsOk \in BOOLEAN, unlinkOk \in BOOLEAN :
        PullSettles(ok, readOk, xmlData, boundsOk, unlinkOk)
ClickByTextSettles == \E ok \in BOOLEAN, unlinkOk \in BOOLEAN : ClickSettles(ok, unlinkOk)
WaitTapSettles == \E ok \in BOOLEAN : TapSettles(ok)
FallbackTapSettles == \E ok \in BOOLEAN : FallbackSettles(ok)

NextDialog ==
    \/ HandleSystemDialogs
    \/ DumpCommandSettles
    \/ PullCommandSettles
    \/ ClickByTextSettles
    \/ WaitTapSettles
    \/ FallbackTapSettles

(***************************************************************************)
(* deviceService (src/src/services/deviceService.js): register with its    *)
(* emulator start, the wipe-once flag file, stopAllEmulators, cleanupAll.  *)
(* One cleanupAll is in flight at a time; register requests arrive while   *)
(* it awaits its commands.                                                 *)
(***************************************************************************)
Pids == {"pid 4242"}
KillPatterns == 3    \* the pkill commands of cleanupAll

\* consumeWipeOnceFlag(), line 38-47: the flag file is removed when it exists;
\* an unlinkSync that throws is caught and the function returns false.
consumeKeepsFlag(flag, unlinkOk) == [ret |-> flag /\ unlinkOk, flag |-> flag]
consumeWipeOnceFlag(flag, unlinkOk) ==
    [ret |-> flag /\ unlinkOk, flag |-> flag /\ ~unlinkOk]

\* setWipeOnceFlag(), line 30-36: mkdirSync, writeFileSync, errors ignored.
setWipeOnceFlag(flag, writeOk) == flag \/ writeOk

\* startEmulator(), line 179-204: the flags on the emulator command line.
emulatorArgs(headless, consumed) ==
    <<"-avd", "-port", "-no-snapshot", "-no-audio", "-no-boot-anim", "-gpu",
      "-memory", "-cores", "-netfast", "-no-window", "-wipe-data", "-verbose",
      "-read-only">>
    \o (IF headless THEN <<"-no-window">> ELSE <<>>)
    \o (IF consumed THEN <<"-wipe-data">> ELSE <<>>)

\* deviceService.list() narrowed to what stopAllEmulators does not skip:
\* the ids of the android devices, in the order of their ids.
RECURSIVE androidIds(_, _)
androidIds(devs, from) ==
    IF from > MaxDevices THEN <<>>
    ELSE IF from \in DOMAIN devs /\ devs[from].platform = "android"
         THEN <<from>> \o androidIds(devs, from + 1)
         ELSE androidIds(devs, from + 1)

\* The summary cleanupAll starts from, line 408-415.
NoSummary == [stopResults |-> <<>>, adbEnumeratedKills |-> <<>>, processKills |-> <<>>,
              adbKill |-> NoVal, wipeNextStart |-> FALSE, deepClean |-> NoVal,
              pm2Restart |-> NoVal]

\* No cleanupAll call.  `errors` is entry.errors of the device being stopped;
\* `enumerated` and `wrote` remember how `adb devices` and the write of the
\* flag file went, which the code keeps nowhere; `list` is this.list() as
\* stopAllEmulators read it, `found` the number of serials enumerated,
\* `tried` what has been attempted on the device being stopped and how it
\* went, `attempts` the same for the devices done.
NoCleanup == [pc |-> "idle", todo |-> <<>>, step |-> 0, serials |-> 0, k |-> 0,
              errors |-> <<>>, summary |-> NoSummary, enumerated |-> NoVal,
              wrote |-> NoVal, fails |-> 0, list |-> <<>>, found |-> 0,
              tried |-> <<>>, attempts |-> <<>>, atReturn |-> {}]

\* The child processes of a cleanupAll run that fail, counted; at most
\* MaxFailures do.
failing(c, outcomes) ==
    [c EXCEPT !.fails = @ + Cardinality({i \in DOMAIN outcomes : ~outcomes[i]})]
mayFail(c, outcomes) == failing(c, outcomes).fails <= MaxFailures

\* The messages stopAllEmulators pushes to entry.errors, line 355-388.
StopErrors == <<"disable window_animation_scale", "disable transition_animation_scale",
                "disable animator_duration_scale", "adb emu kill", "kill pid">>

\* entry.stopped, line 369-385.
stoppedAlways(ok, fallback, killOk) == TRUE
stoppedAfter(ok, fallback, killOk) == ok \/ (fallback /\ killOk)

\* trySpawn(command, args), line 423-437: what it resolves with.
trySpawn(ok) == IF ok THEN "code 0" ELSE "code not 0"

\* No register call yet.
NoRegister == [n |-> 0, platform |-> NoVal, deviceId |-> NoVal, outcome |-> "none",
               status |-> NoVal, spawn |-> "none"]

\* register(), line 53: `platform && ['android', 'ios'].includes(platform)`
validPlatformAny(platform) == TRUE
validPlatform(platform) == platform # NoVal /\ platform \in Platforms

\* register(), line 60: `platform === 'android' && !meta.deviceId`
needsEmulatorAndroid(platform, meta) == platform = "android"
needsEmulator(platform, meta) == platform = "android" /\ meta.deviceId = NoVal

ServiceIdle ==
    /\ svcRet = NoRegister
    /\ wipeFlag = FALSE
    /\ svcArms = 0
    /\ svcStarts = <<>>
    /\ svcPm2 = FALSE
    /\ cuCalls = 0
    /\ cu = NoCleanup

\* register(payload) for an android payload without meta.deviceId, line 50-97:
\* startEmulator (the flag is consumed, the emulator is spawned; a spawn that
\* fails is only logged and leaves pid undefined), then deviceManager.register.
RegisterEmulator(platform, payloadMeta, headless, unlinkOk, pid, port) ==
    \E id \in Ids \ usedIds :
        LET c == consumeWipeOnceFlag(wipeFlag, unlinkOk)
            meta == [deviceId |-> serialOf(port), emulator |-> [pid |-> pid]]
            d == NewDevice(id, platform, NoVal, meta, now)
        IN
        /\ cu.pc # "done"
        /\ validPlatform(platform)
        /\ needsEmulator(platform, payloadMeta)
        /\ svcRet' = [n |-> svcRet.n + 1, platform |-> platform,
                      deviceId |-> payloadMeta.deviceId, outcome |-> "return",
                      status |-> NoVal,
                      spawn |-> IF pid = NoVal THEN "failed" ELSE "started"]
        /\ wipeFlag' = c.flag
        /\ svcStarts' = Append(svcStarts,
                               [found |-> wipeFlag, unlinkOk |-> unlinkOk,
                                consumed |-> c.ret, arms |-> svcArms,
                                args |-> emulatorArgs(headless, c.ret)])
        /\ devices' = MapSet(devices, id, d)
        /\ usedIds' = usedIds \cup {id}
        /\ lastStored' = MapSet(lastStored, id, d)
        /\ dmRet' = [op |-> "register", id |-> id, outcome |-> "return",
                     error |-> NoVal, value |-> d]
        /\ emHist' = MapSet(emHist, id,
                            [path |-> "register", port |-> port,
                             log |-> <<"spawn", "register">>])
        /\ UNCHANGED <<svcArms, svcPm2, cuCalls, cu, now, routeVars, shotVars,
                       bootVars, dlgVars, clickVars, engineVars, em, lateVars>>

\* register(payload) for an ios payload or one that names its deviceId.
RegisterKnown(platform, meta) ==
    /\ cu.pc # "done"
    /\ validPlatform(platform)
    /\ ~needsEmulator(platform, meta)
    /\ \E id \in Ids \ usedIds :
          LET d == NewDevice(id, platform, NoVal, meta, now) IN
          /\ devices' = MapSet(devices, id, d)
          /\ usedIds' = usedIds \cup {id}
          /\ lastStored' = MapSet(lastStored, id, d)
          /\ dmRet' = [op |-> "register", id |-> id, outcome |-> "return",
                       error |-> NoVal, value |-> d]
    /\ svcRet' = [n |-> svcRet.n + 1, platform |-> platform, deviceId |-> meta.deviceId,
                  outcome |-> "return", status |-> NoVal, spawn |-> "none"]
    /\ UNCHANGED <<wipeFlag, svcArms, svcStarts, svcPm2, cuCalls, cu, now, routeVars,
                   shotVars, bootVars, dlgVars, clickVars, engineVars, restVars>>

\* register(payload), line 53-57, for a payload whose platform is missing or
\* is neither 'android' nor 'ios': the call throws with status 400.
RegisterInvalid(platform, meta) ==
    /\ ~validPlatform(platform)
    /\ svcRet.n < MaxRegisters
    /\ svcRet' = [n |-> svcRet.n + 1, platform |-> platform, deviceId |-> meta.deviceId,
                  outcome |-> "throw", status |-> "400", spawn |-> "none"]
    /\ UNCHANGED <<regVars, wipeFlag, svcArms, svcStarts, svcPm2, cuCalls, cu, now,
                   routeVars, shotVars, bootVars, dlgVars, clickVars, engineVars, restVars>>

\* stopAllEmulators(), line 348 and 381: typeof d.meta.emulator.pid === 'number'
hasPid(d) == "emulator" \in DOMAIN d.meta /\ d.meta.emulator.pid # NoVal

\* stopAllEmulators() once its loop is over, line 393-399: the registry is
\* cleared; cleanupAll goes on to its first `adb devices`.
stopAllDone(c) == [c EXCEPT !.pc = "adbDevices", !.todo = <<>>, !.step = 0]

\* cleanupAll(), line 407-417, up to its first await.
CleanupAll ==
    /\ cu.pc = "idle"
    /\ cuCalls < MaxCleanups
    /\ cuCalls' = cuCalls + 1
    /\ LET todo == androidIds(devices, 1)
           c == [NoCleanup EXCEPT !.todo = todo, !.list = todo] IN
       IF todo = <<>>
       THEN /\ cu' = stopAllDone(c)
            /\ devices' = EmptyMap
            /\ lastStored' = EmptyMap
       ELSE /\ cu' = [c EXCEPT !.pc = "stop", !.step = 1]
            /\ UNCHANGED <<devices, lastStored>>
    /\ UNCHANGED <<usedIds, dmRet, wipeFlag, svcArms, svcStarts, svcPm2, svcRet, now,
                   routeVars, shotVars, bootVars, dlgVars, clickVars, engineVars, restVars>>

\* stopAllEmulators(), line 351-391: an executeAdb of the device at the head of
\* the list settles.  Steps 1-3 switch the animations off, step 4 is `emu
\* kill`; when that fails the emulator's pid, if it has one, is killed.
StopStepSettles(ok, killOk) ==
    /\ cu.pc = "stop"
    /\ killOk \/ (cu.step = 4 /\ ~ok /\ hasPid(devices[Head(cu.todo)]))
    /\ mayFail(cu, <<ok>>)
    /\ LET c == [failing(cu, <<ok>>) EXCEPT
                     !.errors = IF ok THEN @ ELSE Append(@, StopErrors[cu.step]),
                     !.tried = Append(@, [op |-> StopErrors[cu.step], ok |-> ok])] IN
       IF cu.step < 4
       THEN /\ cu' = [c EXCEPT !.step = @ + 1]
            /\ UNCHANGED <<devices, lastStored>>
       ELSE LET d == devices[Head(cu.todo)]
                fallback == ~ok /\ hasPid(d)
                entry == [deviceId |-> d.id, serial |-> d.meta.deviceId,
                          pid |-> IF "emulator" \in DOMAIN d.meta
                                  THEN d.meta.emulator.pid ELSE NoVal,
                          stopped |-> stoppedAfter(ok, fallback, killOk),
                          errors |-> IF fallback /\ ~killOk
                                     THEN Append(c.errors, StopErrors[5]) ELSE c.errors]
                tried == IF fallback
                         THEN Append(c.tried, [op |-> StopErrors[5], ok |-> killOk])
                         ELSE c.tried
                c2 == [c EXCEPT !.summary.stopResults = Append(@, entry),
                                !.errors = <<>>, !.tried = <<>>,
                                !.attempts = Append(@, tried)] IN
            IF Len(cu.todo) > 1
            THEN /\ cu' = [c2 EXCEPT !.todo = Tail(@), !.step = 1]
                 /\ UNCHANGED <<devices, lastStored>>
            ELSE /\ cu' = stopAllDone(c2)
                 /\ devices' = EmptyMap
                 /\ lastStored' = EmptyMap
    /\ UNCHANGED <<usedIds, dmRet, wipeFlag, svcArms, svcStarts, svcPm2, svcRet, cuCalls,
                   now, routeVars, shotVars, bootVars, dlgVars, clickVars, engineVars, restVars>>

\* cleanupAll(), line 441-454: the first `adb devices` (its output is dropped).
AdbDevicesSettles(ok) ==
    /\ cu.pc = "adbDevices"
    /\ mayFail(cu, <<ok>>)
    /\ cu' = [failing(cu, <<ok>>) EXCEPT !.pc = "adbDevicesStdout"]
    /\ UNCHANGED <<regVars, wipeFlag, svcArms, svcStarts, svcPm2, svcRet, cuCalls, now,
                   routeVars, shotVars, bootVars, dlgVars, clickVars, engineVars, restVars>>

\* cleanupAll(), line 445-466: the second `adb devices` gives the serials of
\* the running emulators (none when it could not be spawned).
AdbDevicesStdoutSettles(ok, n) ==
    /\ cu.pc = "adbDevicesStdout"
    /\ ~ok => n = 0
    /\ mayFail(cu, <<ok>>)
    /\ cu' = [failing(cu, <<ok>>) EXCEPT !.pc = IF n > 0 THEN "enumKill" ELSE "pkill",
                        !.serials = n, !.k = IF n > 0 THEN 0 ELSE 1,
                        !.enumerated = IF ok THEN "listed" ELSE "failed", !.found = n]
    /\ UNCHANGED <<regVars, wipeFlag, svcArms, svcStarts, svcPm2, svcRet, cuCalls, now,
                   routeVars, shotVars, bootVars, dlgVars, clickVars, engineVars, restVars>>

\* cleanupAll(), line 462-466: `adb -s serial emu kill` of an enumerated serial.
EnumKillSettles(ok) ==
    /\ cu.pc = "enumKill"
    /\ mayFail(cu, <<ok>>)
    /\ cu' = [failing(cu, <<ok>>) EXCEPT !.serials = @ - 1,
                        !.pc = IF cu.serials > 1 THEN "enumKill" ELSE "pkill",
                        !.k = IF cu.serials > 1 THEN 0 ELSE 1,
                        !.summary.adbEnumeratedKills = Append(@, trySpawn(ok))]
    /\ UNCHANGED <<regVars, wipeFlag, svcArms, svcStarts, svcPm2, svcRet, cuCalls, now,
                   routeVars, shotVars, bootVars, dlgVars, clickVars, engineVars, restVars>>

\* cleanupAll(), line 469-478: one of the three pkill commands settles.
PkillSettles(ok) ==
    /\ cu.pc = "pkill"
    /\ mayFail(cu, <<ok>>)
    /\ cu' = [failing(cu, <<ok>>) EXCEPT !.k = IF cu.k < KillPatterns THEN @ + 1 ELSE 0,
                        !.pc = IF cu.k < KillPatterns THEN "pkill" ELSE "adbKill",
                        !.summary.processKills = Append(@, trySpawn(ok))]
    /\ UNCHANGED <<regVars, wipeFlag, svcArms, svcStarts, svcPm2, svcRet, cuCalls, now,
                   routeVars, shotVars, bootVars, dlgVars, clickVars, engineVars, restVars>>

\* `return summary`, line 508: what the caller gets, and the registry then.
returnSummary(c, devs) ==
    [c EXCEPT !.pc = "done", !.atReturn = DOMAIN devs]

\* cleanupAll(), line 481-508: `adb kill-server` settles; the flag file is
\* written, wipeNextStart is set, the caches are removed; with PM2_APP_NAME
\* set `pm2 restart` is awaited, else the summary is returned.
AdbKillServerSettles(ok, writeOk, deepOk) ==
    /\ cu.pc = "adbKill"
    /\ mayFail(cu, <<ok>>)
    /\ wipeFlag' = setWipeOnceFlag(wipeFlag, writeOk)
    /\ svcArms' = IF writeOk THEN svcArms + 1 ELSE svcArms
    /\ LET c == [failing(cu, <<ok>>) EXCEPT
                           !.summary.adbKill = trySpawn(ok),
                           !.wrote = IF writeOk THEN "written" ELSE "failed",
                           !.summary.wipeNextStart = TRUE,
                           !.summary.deepClean = IF deepOk THEN "no errors" ELSE "errors"] IN
       cu' = IF svcPm2 THEN [c EXCEPT !.pc = "pm2"] ELSE returnSummary(c, devices)
    /\ UNCHANGED <<regVars, svcStarts, svcPm2, svcRet, cuCalls, now, routeVars, shotVars,
                   bootVars, dlgVars, clickVars, engineVars, restVars>>

\* cleanupAll(), line 496-508: `pm2 restart` settles without having replaced
\* this process (it failed, or the service name is not this process).
Pm2RestartSettles(ok) ==
    /\ cu.pc = "pm2"
    /\ mayFail(cu, <<ok>>)
    /\ cu' = returnSummary([failing(cu, <<ok>>) EXCEPT !.summary.pm2Restart = trySpawn(ok)],
                           devices)
    /\ UNCHANGED <<regVars, wipeFlag, svcArms, svcStarts, svcPm2, svcRet, cuCalls, now,
                   routeVars, shotVars, bootVars, dlgVars, clickVars, engineVars, restVars>>

\* POST /cleanup (src/unnamed/part_006:162-169): the handler resumes with the
\* summary and sends it; nothing of the call is kept.
CleanupResponds ==
    /\ cu.pc = "done"
    /\ cu' = NoCleanup
    /\ UNCHANGED <<regVars, wipeFlag, svcArms, svcStarts, svcPm2, svcRet, cuCalls, now,
                   routeVars, shotVars, bootVars, dlgVars, clickVars, engineVars, restVars>>

RegisterEmulatorCall ==
    \E pf \in Platforms \cup InvalidPlatforms, m \in Metas, headless \in BOOLEAN,
       unlinkOk \in BOOLEAN,
       pid \in Pids \cup {NoVal}, port \in RegisterPorts :
        RegisterEmulator(pf, m, headless, unlinkOk, pid, port)
RegisterInvalidCall ==
    \E pf \in Platforms \cup InvalidPlatforms, m \in Metas : RegisterInvalid(pf, m)
RegisterKnownCall ==
    \E pf \in Platforms \cup InvalidPlatforms, m \in Metas : RegisterKnown(pf, m)
StopCommandSettles == \E ok \in BOOLEAN, killOk \in BOOLEAN : StopStepSettles(ok, killOk)
AdbDevicesCloses == \E ok \in BOOLEAN : AdbDevicesSettles(ok)
AdbDevicesStdoutCloses ==
    \E ok \in BOOLEAN, n \in 0..MaxSerials : AdbDevicesStdoutSettles(ok, n)
EnumKillCloses == \E ok \in BOOLEAN : EnumKillSettles(ok)
PkillCloses == \E ok \in BOOLEAN : PkillSettles(ok)
AdbKillServerCloses ==
    \E ok \in BOOLEAN, writeOk \in BOOLEAN, deepOk \in BOOLEAN :
        AdbKillServerSettles(ok, writeOk, deepOk)
Pm2RestartCloses == \E ok \in BOOLEAN : Pm2RestartSettles(ok)

NextService ==
    \/ RegisterEmulatorCall
    \/ RegisterKnownCall
    \/ CleanupAll
    \/ StopCommandSettles
    \/ AdbDevicesCloses
    \/ AdbDevicesStdoutCloses
    \/ EnumKillCloses
    \/ PkillCloses
    \/ AdbKillServerCloses
    \/ Pm2RestartCloses
    \/ CleanupResponds

(***************************************************************************)
(* android.clickByText (src/src/platforms/android.js:116-181; the revision *)
(* in src/unnamed/part_008:244-311 differs in what it returns).  The UI    *)
(* dump is the list of its node elements in document order, each with its *)
(* nesting depth below <hierarchy>, its text and its bounds attribute; a   *)
(* text is a sequence of letters.                                          *)
(***************************************************************************)
ClickRevisions == {"head", "position"}
NodeTexts == {<<"O", "K">>, <<"k">>}
SearchTexts == {<<"o">>, <<"K">>}
\* bounds="[x1,y1][x2,y2]"
NodeBounds == {[x1 |-> 0, y1 |-> 0, x2 |-> 10, y2 |-> 10],
               [x1 |-> 1, y1 |-> 2, x2 |-> 4, y2 |-> 7],
               [x1 |-> 0 - 5, y1 |-> 0, x2 |-> 10, y2 |-> 10]}
NoBounds == [x1 |-> 0, y1 |-> 0, x2 |-> 0, y2 |-> 0]

\* The dumps of up to n nodes: a node is at most one level deeper than the
\* node before it.
RECURSIVE Documents(_)
Documents(n) ==
    IF n = 0 THEN {<<>>}
    ELSE Documents(n - 1) \cup
         {Append(d, [depth |-> k, text |-> t, bounds |-> b]) :
             d \in {e \in Documents(n - 1) : Len(e) = n - 1},
             k \in 1..n, t \in NodeTexts, b \in NodeBounds}
WellNested(d) ==
    \A i \in 1..Len(d) :
        d[i].depth <= (IF i = 1 THEN 0 ELSE d[i - 1].depth) + 1

\* String.prototype.toLowerCase
toLowerCase(s) ==
    [i \in 1..Len(s) |-> IF s[i] = "O" THEN "o" ELSE IF s[i] = "K" THEN "k" ELSE s[i]]

\* xml2js: the element a node element is nested in (0 is <hierarchy>).
RECURSIVE parentOf(_, _, _)
parentOf(d, i, j) ==
    IF j = 0 THEN 0
    ELSE IF d[j].depth = d[i].depth - 1 THEN j
    ELSE parentOf(d, i, j - 1)

\* node.node: the child elements of element i, in the order of the document.
RECURSIVE childrenFrom(_, _, _)
childrenFrom(d, i, j) ==
    IF j > Len(d) THEN <<>>
    ELSE IF parentOf(d, j, j - 1) = i THEN <<j>> \o childrenFrom(d, i, j + 1)
    ELSE childrenFrom(d, i, j + 1)

\* findNodes(node, text, nodes): the node itself when its text attribute is
\* non-empty and includes the text (both in lower case), then its children.
RECURSIVE findNodes(_, _, _)
RECURSIVE findNodesIn(_, _, _)
findNodes(d, i, text) ==
    (IF i > 0 /\ d[i].text # <<>> /\ Includes(toLowerCase(d[i].text), toLowerCase(text))
     THEN <<i>> ELSE <<>>)
    \o findNodesIn(d, childrenFrom(d, i, i + 1), text)
findNodesIn(d, kids, text) ==
    IF kids = <<>> THEN <<>>
    ELSE findNodes(d, Head(kids), text) \o findNodesIn(d, Tail(kids), text)

\* bounds.match(/\[(\d+),(\d+)\]\[(\d+),(\d+)\]/): \d+ takes no sign.
boundsMatch(b) == b.x1 >= 0 /\ b.y1 >= 0 /\ b.x2 >= 0 /\ b.y2 >= 0

centerOff(b) == [x |-> b.x1, y |-> b.y1]
\* Math.floor((x1 + x2) / 2), Math.floor((y1 + y2) / 2)
center(b) == [x |-> (b.x1 + b.x2) \div 2, y |-> (b.y1 + b.y2) \div 2]

NoClick == [pc |-> "idle", text |-> <<>>, exact |-> TRUE, index |-> 0, doc |-> <<>>,
            parsed |-> FALSE,
            taps |-> <<>>, res |-> "none", error |-> NoVal, count |-> 0,
            bounds |-> NoBounds]

ClickIdle ==
    /\ ckRev = "head"
    /\ ck = NoClick

\* `throw new Error(...)`
clickThrows(c, error) == [c EXCEPT !.pc = "done", !.res = "thrown", !.error = error]

\* clickByText from the parsed dump to the await of the tap.
afterParse(c) ==
    LET matchingNodes == findNodes(c.doc, 0, c.text)
        m == Len(matchingNodes) IN
    IF m = 0 THEN clickThrows(c, "No elements found")
    ELSE IF c.index >= m THEN clickThrows(c, "Index out of bounds")
    ELSE IF c.index < 0 THEN clickThrows(c, "TypeError")
    ELSE LET b == c.doc[matchingNodes[c.index + 1]].bounds IN
         IF ~boundsMatch(b) THEN clickThrows(c, "Could not parse bounds")
         ELSE [c EXCEPT !.pc = "tap", !.taps = Append(@, center(b)),
                        !.count = m, !.bounds = b]

\* clickByText(device, {text, exact, index}) up to the await of the uiautomator
\* dump; exact is destructured and not read again.
ClickByText(text, exact, index) ==
    /\ ck.pc = "idle"
    /\ ck' = [ck EXCEPT !.pc = "dump", !.text = text, !.exact = exact, !.index = index]
    /\ UNCHANGED <<ckRev, now, regVars, routeVars, shotVars, bootVars, dlgVars, svcVars, engineVars, restVars>>

\* `adb shell uiautomator dump` settles.
ClickDumpSettles(ok) ==
    /\ ck.pc = "dump"
    /\ ck' = IF ok THEN [ck EXCEPT !.pc = "cat"] ELSE clickThrows(ck, "adb")
    /\ UNCHANGED <<ckRev, now, regVars, routeVars, shotVars, bootVars, dlgVars, svcVars, engineVars, restVars>>

\* `adb shell cat` settles with the dump; it is parsed and searched.
ClickCatSettles(ok, doc) ==
    /\ ck.pc = "cat"
    /\ ck' = IF ok THEN afterParse([ck EXCEPT !.doc = doc, !.parsed = TRUE])
             ELSE clickThrows(ck, "adb")
    /\ UNCHANGED <<ckRev, now, regVars, routeVars, shotVars, bootVars, dlgVars, svcVars, engineVars, restVars>>

\* `adb shell input tap x y` settles.
ClickTapSettles(ok) ==
    /\ ck.pc = "tap"
    /\ ck' = IF ok THEN [ck EXCEPT !.pc = "done", !.res = "returned"]
             ELSE clickThrows(ck, "adb")
    /\ UNCHANGED <<ckRev, now, regVars, routeVars, shotVars, bootVars, dlgVars, svcVars, engineVars, restVars>>

\* What a call that returned hands back.
clickResult(rev, c) ==
    IF rev = "head" THEN [count |-> c.count, bounds |-> c.bounds]
    ELSE [ok |-> TRUE, count |-> c.count, position |-> c.taps[Len(c.taps)],
          bounds |-> c.bounds]

ClickByTextCall ==
    \E text \in SearchTexts, exact \in BOOLEAN, index \in (0 - 1)..MaxNodes :
        ClickByText(text, exact, index)
ClickDumpCloses == \E ok \in BOOLEAN : ClickDumpSettles(ok)
ClickCatCloses ==
    \E ok \in BOOLEAN, doc \in {d \in Documents(MaxNodes) : WellNested(d)} :
        ClickCatSettles(ok, doc)
ClickTapCloses == \E ok \in BOOLEAN : ClickTapSettles(ok)

NextClick ==
    \/ ClickByTextCall
    \/ ClickDumpCloses
    \/ ClickCatCloses
    \/ ClickTapCloses

(***************************************************************************)
(* ActionEngine (src/src/actions/actionEngine.js): one operation is        *)
(* dispatched at a time; `log` lists, in order, the calls it makes to      *)
(* handleSystemDialogs and to the platform controller and the adb commands *)
(* that are run for it.                                                     *)
(***************************************************************************)
Wrapped == {"launchApp", "tap", "clickByText"}
Direct == {"closeApp", "swipe", "type", "back", "home", "rotate", "setGPS"}
Operations == Wrapped \cup Direct \cup {"intent", "simulateRoute", "screenshotStream"}

NoCall == [pc |-> "idle", op |-> NoVal, id |-> 0, platform |-> NoVal, serial |-> NoVal,
           known |-> FALSE, log |-> <<>>, retry |-> 0,
           res |-> "none", error |-> NoVal, status |-> NoVal]
NoRouteTask == [active |-> FALSE, platform |-> NoVal, n |-> 0, idx |-> 0, loop |-> FALSE]

EngineIdle ==
    /\ ae = NoCall
    /\ aeTask = NoRouteTask

\* `throw e`: the call rejects; status is e.status, if the error has one.
engineThrows(c, error, status) ==
    [c EXCEPT !.pc = "done", !.res = "thrown", !.error = error, !.status = status]
\* `return {...}`: status is the status field of the object, if it has one.
engineReturns(c, status) ==
    [c EXCEPT !.pc = "done", !.res = "returned", !.status = status]

\* withDialogHandling(deviceId, action), line 8-19, after its ensure: the
\* call to handleSystemDialogs is commented out, action(device) is all it does.
withDialogHandling(c) == c

\* controllerFor(device).op(device, ...): src/src/platforms/ios.js returns an
\* object with status 501 at once; the android controller runs adb.
controllerCall(c) ==
    LET c2 == [c EXCEPT !.log = Append(@, "controller." \o c.op)] IN
    IF c.platform = "ios" THEN engineReturns(c2, "501")
    ELSE [c2 EXCEPT !.pc = "controller", !.log = Append(@, "adb")]

\* The body of an operation for the device ensure() gave it, up to its
\* first await.
dispatch(c, d) ==
    IF c.op \in Wrapped THEN controllerCall(withDialogHandling(c))
    ELSE IF c.op \in Direct THEN controllerCall(c)
    ELSE IF c.op = "intent"
         THEN IF c.platform = "ios"
              THEN engineThrows(c, "Intent not supported on this platform", "501")
              ELSE controllerCall(c)
    ELSE IF c.op = "simulateRoute" THEN engineReturns(c, NoVal)
    ELSE IF c.serial = NoVal
         THEN engineThrows(c, "Device serial number is not available", NoVal)
         ELSE [c EXCEPT !.pc = "preflight", !.log = Append(@, "adb getprop")]

\* ActionEngine.op(deviceId, ...), line 27-117: deviceManager.ensure, then
\* the operation.  simulateRoute also puts the route task on the device and
\* starts its interval.
Dispatch(op, id, n, loop) ==
    /\ ae.pc \in {"idle", "done"}
    /\ op = "simulateRoute" => ~aeTask.active
    /\ LET e == ensure(devices, id)
           d == e.value
           c == [NoCall EXCEPT !.op = op, !.id = id,
                               !.known = (e.outcome = "return"),
                               !.platform = d.platform, !.serial = d.meta.deviceId]
       IN
       IF e.outcome = "throw"
       THEN /\ ae' = engineThrows(c, e.error, NoVal)
            /\ UNCHANGED <<aeTask, devices, lastStored>>
       ELSE /\ ae' = dispatch(c, d)
            /\ IF op = "simulateRoute"
               THEN /\ aeTask' = [active |-> TRUE, platform |-> d.platform, n |-> n,
                                  idx |-> 0, loop |-> loop]
                    /\ devices' = MapSet(devices, id, [d EXCEPT !.tasks = "{route}"])
                    /\ lastStored' = MapSet(lastStored, id, [d EXCEPT !.tasks = "{route}"])
               ELSE UNCHANGED <<aeTask, devices, lastStored>>
    /\ UNCHANGED <<usedIds, dmRet, now, routeVars, shotVars, bootVars, dlgVars, svcVars, clickVars, restVars>>

\* The adb command of an android controller operation settles.
ControllerSettles(ok) ==
    /\ ae.pc = "controller"
    /\ ae' = IF ok THEN engineReturns(ae, NoVal) ELSE engineThrows(ae, "adb", NoVal)
    /\ UNCHANGED <<aeTask, regVars, now, routeVars, shotVars, bootVars, dlgVars, svcVars, clickVars, restVars>>

\* screenshotStream, line 126-144: the getprop probe settles (after a failed
\* one and its 2 s sleep the call starts over, MAX_RETRIES times); after a
\* good one handleSystemDialogs is called, not awaited, and screencap is run.
EnginePreflightSettles(ok) ==
    /\ ae.pc = "preflight"
    /\ ae' = IF ok
             THEN [ae EXCEPT !.pc = "capture",
                             !.log = @ \o <<"handleSystemDialogs", "adb screencap">>]
             ELSE IF ae.retry < MAX_RETRIES_HEAD
                  THEN [ae EXCEPT !.retry = @ + 1, !.log = Append(@, "adb getprop")]
                  ELSE engineThrows(ae, "Emulator not responding", NoVal)
    /\ UNCHANGED <<aeTask, regVars, now, routeVars, shotVars, bootVars, dlgVars, svcVars, clickVars, restVars>>

\* screenshotStream, line 146-196: screencap closes.
EngineCaptureSettles(ok) ==
    /\ ae.pc = "capture"
    /\ ae' = IF ok THEN engineReturns(ae, NoVal) ELSE engineThrows(ae, "screencap failed", NoVal)
    /\ UNCHANGED <<aeTask, regVars, now, routeVars, shotVars, bootVars, dlgVars, svcVars, clickVars, restVars>>

\* tick, line 96-108, of a task on an ios device: ios.setGPS resolves with its
\* status 501 object without running anything, idx moves on.  (The ticks of
\* a task on an android device are the actions of the route simulation.)
EngineIosTick ==
    /\ aeTask.active
    /\ aeTask.platform = "ios"
    /\ aeTask.n > 0
    /\ aeTask' = IF aeTask.idx + 1 >= aeTask.n
                 THEN IF aeTask.loop THEN [aeTask EXCEPT !.idx = 0]
                      ELSE [aeTask EXCEPT !.idx = @ + 1, !.active = FALSE]
                 ELSE [aeTask EXCEPT !.idx = @ + 1]
    /\ UNCHANGED <<ae, regVars, now, routeVars, shotVars, bootVars, dlgVars, svcVars, clickVars, restVars>>

DispatchCall ==
    \E op \in Operations, id \in Ids, n \in 0..MaxPoints, loop \in BOOLEAN :
        /\ op # "simulateRoute" => n = 0 /\ ~loop
        /\ Dispatch(op, id, n, loop)
ControllerCloses == \E ok \in BOOLEAN : ControllerSettles(ok)
EnginePreflightCloses == \E ok \in BOOLEAN : EnginePreflightSettles(ok)
EngineCaptureCloses == \E ok \in BOOLEAN : EngineCaptureSettles(ok)

NextEngine ==
    \/ RegisterCall
    \/ DispatchCall
    \/ ControllerCloses
    \/ EnginePreflightCloses
    \/ EngineCaptureCloses
    \/ EngineIosTick

(***************************************************************************)
(* EmulatorManager.startEmulator (src/src/services/emulatorService.js):    *)
(* spawn, waitForBoot, configureDevice, deviceManager.register.            *)
(***************************************************************************)
\* The two adb commands of configureDevice, in order.
ConfigureCommands ==
    <<"settings put secure location_mode 3",
      "pm grant com.google.android.apps.maps android.permission.ACCESS_FINE_LOCATION">>

NoStart == [pc |-> "idle", port |-> 0, polls |-> 0, step |-> 0, log |-> <<>>,
            outcome |-> NoVal]
NoHist == [k \in {} |-> [path |-> NoVal, port |-> 0, log |-> <<>>]]

StartIdle ==
    /\ em = NoStart
    /\ emHist = NoHist

\* The meta startEmulator registers: { serial, avd, port, pid }; it has no
\* deviceId (undefined).
managerMeta(port) ==
    [deviceId |-> NoVal, serial |-> serialOf(port), port |-> port]

\* startEmulator({avd, port}) up to its first await: the emulator process is
\* spawned and kept in this.processes, the first boot probe is started.
EM_StartEmulator(port) ==
    /\ em.pc \in {"idle", "done", "failed"}
    /\ em' = [pc |-> "boot", port |-> port, polls |-> 0, step |-> 0,
              log |-> <<"spawn">>, outcome |-> NoVal]
    /\ UNCHANGED <<emHist, regVars, now, routeVars, shotVars, bootVars, dlgVars,
                   svcVars, clickVars, engineVars, lateVars>>

\* waitForBoot: a probe settles; '1' returns true and configureDevice starts
\* its first command, anything else starts the 2 s sleep.
EM_BootProbeSettles(code, out) ==
    /\ em.pc = "boot"
    /\ em' = IF probeBooted(code, out)
             THEN [em EXCEPT !.pc = "configure", !.step = 1,
                             !.log = Append(@, "boot")]
             ELSE [em EXCEPT !.pc = "sleep"]
    /\ UNCHANGED <<emHist, regVars, now, routeVars, shotVars, bootVars, dlgVars,
                   svcVars, clickVars, engineVars, lateVars>>

\* waitForBoot: the sleep ends and the loop condition is tested; past the
\* timeout the call throws and startEmulator rethrows.
EM_BootSleepEnds(late) ==
    /\ em.pc = "sleep"
    /\ em' = IF late \/ em.polls + 1 >= MaxBootPolls
             THEN [em EXCEPT !.pc = "failed", !.outcome = "throw"]
             ELSE [em EXCEPT !.pc = "boot", !.polls = @ + 1]
    /\ UNCHANGED <<emHist, regVars, now, routeVars, shotVars, bootVars, dlgVars,
                   svcVars, clickVars, engineVars, lateVars>>

\* configureDevice: a command settles. A failure is logged and rethrown; after
\* the last command startEmulator registers the device and returns.
EM_ConfigureSettles(code) ==
    /\ em.pc = "configure"
    /\ IF executeAdbCommand(code, <<>>).settled = "rejected"
       THEN /\ em' = [em EXCEPT !.pc = "failed", !.outcome = "throw"]
            /\ UNCHANGED <<emHist, regVars>>
       ELSE IF em.step < Len(ConfigureCommands)
       THEN /\ em' = [em EXCEPT !.step = @ + 1]
            /\ UNCHANGED <<emHist, regVars>>
       ELSE \E id \in Ids \ usedIds :
               LET d == NewDevice(id, "android", NoVal, managerMeta(em.port), now)
                   log == em.log \o <<"configure", "register">>
               IN
               /\ em' = [em EXCEPT !.pc = "done", !.outcome = "return", !.log = log]
               /\ emHist' = MapSet(emHist, id,
                                   [path |-> "startEmulator", port |-> em.port,
                                    log |-> log])
               /\ devices' = MapSet(devices, id, d)
               /\ usedIds' = usedIds \cup {id}
               /\ lastStored' = MapSet(lastStored, id, d)
               /\ dmRet' = [op |-> "register", id |-> id, outcome |-> "return",
                            error |-> NoVal, value |-> d]
    /\ UNCHANGED <<now, routeVars, shotVars, bootVars, dlgVars, svcVars, clickVars,
                   engineVars, lateVars>>

EM_StartEmulatorCall == \E port \in Ports : EM_StartEmulator(port)
EM_BootProbeCloses ==
    \E code \in ExitCodes, out \in {<<"1">>, <<"1", "\n">>, <<"0">>, <<>>} :
        EM_BootProbeSettles(code, out)
EM_BootSleepFires == \E late \in BOOLEAN : EM_BootSleepEnds(late)
EM_ConfigureCloses == \E code \in ExitCodes : EM_ConfigureSettles(code)

(***************************************************************************)
(* The three ways an adb command is run: the controller's adb helper       *)
(* (src/src/platforms/android.js), deviceService.executeAdb and            *)
(* EmulatorManager.executeAdbCommand.                                      *)
(***************************************************************************)
AdbRunners == {"adb", "executeAdb", "executeAdbCommand"}
\* What adb can write to stderr, in pieces.
StderrPieces == {"\n", "Error", "daemon started"}
Stderrs == UNION {[1..n -> StderrPieces] : n \in 0..MaxErr}

\* /error|failed/i.test(stderr)
testErrorOrFailed(stderr) ==
    \E i \in 1..Len(stderr) :
        (IF stderr[i] = "Error" THEN "error" ELSE stderr[i]) \in {"error", "failed"}

Rejected == [settled |-> "rejected", value |-> <<>>]

\* adb(command, {serial}): promisify(exec) rejects on a non-zero exit code;
\* on exit code 0 the helper throws when stderr reads like an error.
adb(code, stdout, stderr) ==
    IF code # 0 THEN Rejected
    ELSE IF trim(stderr) # <<>> /\ testErrorOrFailed(stderr) THEN Rejected
    ELSE [settled |-> "resolved", value |-> stdout]

\* deviceService.executeAdb: 'close' with code 0 resolves {stdout, stderr},
\* both trimmed; any other code rejects with status 500.
executeAdb(code, stdout, stderr) ==
    IF code = 0 THEN [settled |-> "resolved", value |-> trim(stdout)]
    ELSE Rejected

runAdb(fn, code, stdout, stderr) ==
    IF fn = "adb" THEN adb(code, stdout, stderr)
    ELSE IF fn = "executeAdb" THEN executeAdb(code, stdout, stderr)
    ELSE executeAdbCommand(code, stdout)

NoAdb == [pc |-> "idle", fn |-> NoVal, code |-> 0, stdout |-> <<>>,
          stderr |-> <<>>, res |-> Rejected]
AdbIdle == adbCall = NoAdb

\* One of the three is called: the child process is started.
AdbRuns(fn) ==
    /\ adbCall.pc # "running"
    /\ adbCall' = [NoAdb EXCEPT !.pc = "running", !.fn = fn]
    /\ UNCHANGED <<regVars, now, routeVars, shotVars, bootVars, dlgVars, svcVars,
                   clickVars, engineVars, startVars, up, kl, px, mg>>

\* The child process ends with an exit code, having written stdout and stderr.
AdbCloses(code, stdout, stderr) ==
    /\ adbCall.pc = "running"
    /\ adbCall' = [adbCall EXCEPT !.pc = "settled", !.code = code,
                                  !.stdout = stdout, !.stderr = stderr,
                                  !.res = runAdb(adbCall.fn, code, stdout, stderr)]
    /\ UNCHANGED <<regVars, now, routeVars, shotVars, bootVars, dlgVars, svcVars,
                   clickVars, engineVars, startVars, up, kl, px, mg>>

AdbRunsAny == \E fn \in AdbRunners : AdbRuns(fn)
AdbClosesAny ==
    \E code \in ExitCodes, stdout \in ProbeOutputs, stderr \in Stderrs :
        AdbCloses(code, stdout, stderr)
NextAdb ==
    \/ AdbRunsAny
    \/ AdbClosesAny

(***************************************************************************)
(* deviceService.updateProxy and the applyProxy it starts                  *)
(* (src/src/services/deviceService.js)                                     *)
(***************************************************************************)
\* What a caller hands in as proxy: a URL, a value parse() rejects, the empty
\* string, or nothing.
ProxyInputs == Proxies \cup {"no-port", "", NoVal}

\* !proxy
proxyMissingNever(proxy) == FALSE
proxyMissing(proxy) == proxy \in {NoVal, ""}

\* parse(u) of applyProxy: whether new URL(u) or /^([^:]+):(\d+)$/ accepts u.
parses(u) == u \in Proxies

\* The settings applyProxy writes, in order; a failure of one of the first
\* three ends applyProxy, a failure of the last is swallowed.
ProxyCommands ==
    <<"put global http_proxy", "put global global_http_proxy_host",
      "put global global_http_proxy_port",
      "put global global_http_proxy_exclusion_list">>

\* executeAdb(id, command) up to its spawn: the device must be known and
\* carry a serial.
hasSerial(devs, id) ==
    get(devs, id) # NullDevice /\ get(devs, id).meta.deviceId # NoVal

NoUpdate == [pc |-> "idle", turn |-> 0, id |-> 0, proxy |-> NoVal,
             outcome |-> NoVal, status |-> NoVal, step |-> 0, adb |-> <<>>]
ProxyIdle == up = NoUpdate

\* updateProxy(id, proxy), with the part of applyProxy that runs before its
\* first await: parse and the spawn of the first adb command.
UpdateProxy(id, proxy) ==
    /\ up.pc # "applying"
    /\ LET call == [NoUpdate EXCEPT !.turn = 1 - up.turn, !.id = id, !.proxy = proxy]
       IN
       IF proxyMissing(proxy)
       THEN /\ up' = [call EXCEPT !.pc = "done", !.outcome = "throw", !.status = "400"]
            /\ UNCHANGED <<devices, lastStored, dmRet>>
       ELSE /\ devices' = updateMap(devices, id, [proxy |-> proxy])
            /\ lastStored' = IF id \in DOMAIN devices
                             THEN MapSet(lastStored, id,
                                         Merge(devices[id], [proxy |-> proxy]))
                             ELSE lastStored
            /\ dmRet' = [op |-> "update", id |-> id, outcome |-> "return",
                         error |-> NoVal, value |-> get(devices', id)]
            /\ up' = IF get(devices', id) = NullDevice
                     THEN [call EXCEPT !.pc = "done", !.outcome = "throw",
                                       !.status = "404"]
                     ELSE IF parses(proxy) /\ hasSerial(devices', id)
                     THEN [call EXCEPT !.pc = "applying", !.outcome = "return",
                                       !.step = 1, !.adb = <<ProxyCommands[1]>>]
                     ELSE [call EXCEPT !.pc = "done", !.outcome = "return"]
    /\ UNCHANGED <<usedIds, now, routeVars, shotVars, bootVars, dlgVars, svcVars,
                   clickVars, engineVars, startVars, adbCall, kl, px, mg>>

\* The adb command applyProxy awaits settles: the next one is spawned, or
\* applyProxy ends.
ApplyProxySettles(ok) ==
    /\ up.pc = "applying"
    /\ up' = IF up.step < Len(ProxyCommands) /\ ok /\ hasSerial(devices, up.id)
             THEN [up EXCEPT !.step = @ + 1,
                             !.adb = Append(@, ProxyCommands[up.step + 1])]
             ELSE [up EXCEPT !.pc = "done"]
    /\ UNCHANGED <<regVars, now, routeVars, shotVars, bootVars, dlgVars, svcVars,
                   clickVars, engineVars, startVars, adbCall, kl, px, mg>>

UpdateProxyCall == \E id \in Ids, proxy \in ProxyInputs : UpdateProxy(id, proxy)
ApplyProxyCloses == \E ok \in BOOLEAN : ApplyProxySettles(ok)
NextProxy ==
    \/ RegisterCall
    \/ UpdateCall
    \/ UpdateProxyCall
    \/ ApplyProxyCloses

(***************************************************************************)
(* The force kills of cleanupAll (src/src/services/deviceService.js line   *)
(* 468-478, and its earlier revision).  Names and command lines are        *)
(* sequences of text pieces; pkill -x compares the whole process name,     *)
(* pkill -f searches the command line for the pattern.                     *)
(***************************************************************************)
KillRevisions == {"head", "earlier"}

\* const killPatterns = [...]
killPatterns(rev) ==
    IF rev = "head"
    THEN <<[flag |-> "-f", pattern |-> <<"qemu-system-">>],
           [flag |-> "-x", pattern |-> <<"emulator">>],
           [flag |-> "-x", pattern |-> <<"emulator", "-headless">>]>>
    ELSE <<[flag |-> "-f", pattern |-> <<"emulator">>],
           [flag |-> "-f", pattern |-> <<"qemu-system-">>]>>

\* The processes that may be running when cleanupAll is called: the API
\* itself, started by a relative or by its full path, and emulator leftovers.
ControlProcesses == {"api", "api by path"}
Leftovers == {"emulator", "emulator-headless", "qemu", "adb"}
ProcessTable ==
    [p \in ControlProcesses \cup Leftovers |->
        IF p = "api"
        THEN [name |-> <<"node">>, cmd |-> <<"node", " src/server.js">>]
        ELSE IF p = "api by path"
        THEN [name |-> <<"node">>,
              cmd |-> <<"node", " /srv/android-", "emulator", "-api/src/server.js">>]
        ELSE IF p = "emulator"
        THEN [name |-> <<"emulator">>, cmd |-> <<"emulator", " -avd test">>]
        ELSE IF p = "emulator-headless"
        THEN [name |-> <<"emulator", "-headless">>,
              cmd |-> <<"emulator", "-headless", " -avd test">>]
        ELSE IF p = "qemu"
        THEN [name |-> <<"qemu-system-", "x86_64">>,
              cmd |-> <<"qemu-system-", "x86_64", " -avd test">>]
        ELSE [name |-> <<"adb">>, cmd |-> <<"adb", " fork-server">>]]

\* Whether text pat occurs in text s.
occursIn(pat, s) ==
    \E i \in 1..(Len(s) - Len(pat) + 1) : SubSeq(s, i, i + Len(pat) - 1) = pat

\* The processes `pkill flag pattern` signals.
pkill(kp, procs) ==
    {p \in procs :
        IF kp.flag = "-x" THEN ProcessTable[p].name = kp.pattern
        ELSE occursIn(kp.pattern, ProcessTable[p].cmd)}

NoKill == [pc |-> "idle", rev |-> "head", control |-> "api", procs |-> {},
           step |-> 0]
KillIdle == kl = NoKill

\* cleanupAll reaches the loop over killPatterns and spawns the first pkill.
KillLoopStarts ==
    /\ kl.pc = "ready"
    /\ kl' = [kl EXCEPT !.pc = "killing", !.step = 1]
    /\ UNCHANGED <<regVars, now, routeVars, shotVars, bootVars, dlgVars, svcVars,
                   clickVars, engineVars, startVars, adbCall, up, px, mg>>

\* The pkill awaited by trySpawn ends: it ran and signalled what it selects,
\* or could not be spawned; the next pattern follows.
KillPatternSettles(ran) ==
    /\ kl.pc = "killing"
    /\ LET kp == killPatterns(kl.rev)[kl.step] IN
       kl' = [kl EXCEPT !.procs = IF ran THEN @ \ pkill(kp, @) ELSE @,
                        !.step = @ + 1,
                        !.pc = IF kl.step = Len(killPatterns(kl.rev))
                               THEN "done" ELSE "killing"]
    /\ UNCHANGED <<regVars, now, routeVars, shotVars, bootVars, dlgVars, svcVars,
                   clickVars, engineVars, startVars, adbCall, up, px, mg>>

KillPatternCloses == \E ran \in BOOLEAN : KillPatternSettles(ran)
NextKill ==
    \/ KillLoopStarts
    \/ KillPatternCloses

(***************************************************************************)
(* updateProxy calls for one device that overlap: each call stores its     *)
(* proxy and starts its own applyProxy, whose adb commands run one after   *)
(* the other (src/src/services/deviceService.js line 165-176, 255-276).    *)
(***************************************************************************)
OverlapCalls == 1..MaxOverlap
OverlapProxies == {"http://proxy-a:8080", "http://proxy-b:3128"}

\* parse(u): host and port of the URL.
parse(u) ==
    IF u = "http://proxy-a:8080" THEN [host |-> "proxy-a", port |-> "8080"]
    ELSE [host |-> "proxy-b", port |-> "3128"]

\* The value the n-th settings command of applyProxy writes (n in 1..3).
settingValue(u, n) ==
    IF n = 1 THEN parse(u).host \o ":" \o parse(u).port
    ELSE IF n = 2 THEN parse(u).host
    ELSE parse(u).port

\* The settings of the device: http_proxy, global_http_proxy_host,
\* global_http_proxy_port.
NoSettings == <<NoVal, NoVal, NoVal>>
NoApply == [pc |-> "idle", id |-> 0, proxy |-> NoVal, step |-> 0]
NoOverlap == [calls |-> [c \in OverlapCalls |-> NoApply], settings |-> NoSettings]
OverlapIdle == px = NoOverlap

\* updateProxy(id, proxy) of call c for the registered device id: the proxy is
\* stored and the first adb command of applyProxy is spawned.
OverlapUpdateProxy(c, id, proxy) ==
    /\ px.calls[c].pc = "idle"
    /\ \A b \in OverlapCalls : b < c => px.calls[b].pc # "idle" /\ px.calls[b].id = id
    /\ get(devices, id) # NullDevice
    /\ devices' = updateMap(devices, id, [proxy |-> proxy])
    /\ lastStored' = MapSet(lastStored, id, Merge(devices[id], [proxy |-> proxy]))
    /\ dmRet' = [op |-> "update", id |-> id, outcome |-> "return",
                 error |-> NoVal, value |-> get(devices', id)]
    /\ px' = [px EXCEPT !.calls[c] = [pc |-> "applying", id |-> id, proxy |-> proxy,
                                       step |-> 1]]
    /\ UNCHANGED <<usedIds, now, routeVars, shotVars, bootVars, dlgVars, svcVars,
                   clickVars, engineVars, startVars, adbCall, up, kl,
                   mg>>

\* The adb command call c awaits ends.  One of the first three that succeeds
\* has written its setting and the next command is spawned; one that fails
\* ends applyProxy; the fourth (the exclusion list) ends it either way.
OverlapCommandSettles(c, ok) ==
    /\ px.calls[c].pc = "applying"
    /\ LET a == px.calls[c] IN
       px' = [px EXCEPT
                !.settings = IF ok /\ a.step <= 3
                             THEN [@ EXCEPT ![a.step] = settingValue(a.proxy, a.step)]
                             ELSE @,
                !.calls[c] = IF a.step > 3 THEN [a EXCEPT !.pc = "applied"]
                             ELSE IF ok THEN [a EXCEPT !.step = @ + 1]
                             ELSE [a EXCEPT !.pc = "failed"]]
    /\ UNCHANGED <<regVars, now, routeVars, shotVars, bootVars, dlgVars, svcVars,
                   clickVars, engineVars, startVars, adbCall, up, kl,
                   mg>>

OverlapUpdateProxyCall ==
    \E c \in OverlapCalls, id \in Ids, proxy \in OverlapProxies :
        OverlapUpdateProxy(c, id, proxy)
OverlapCommandCloses ==
    \E c \in OverlapCalls, ok \in BOOLEAN : OverlapCommandSettles(c, ok)
(***************************************************************************)
(* EmulatorManager.processes: the emulator processes startEmulator spawns, *)
(* their close handlers and stopEmulator                                   *)
(* (src/src/services/emulatorService.js line 11-100, 167-197).             *)
(***************************************************************************)
Procs == 1..MaxProcs
ManagerSerials == {serialOf(p) : p \in Ports}
NoProc == [serial |-> NoVal, state |-> "none", pc |-> "idle", id |-> 0]
\* regs: the devices startEmulator had registered for the serial when the
\* call was made.
NoStop == [pc |-> "idle", serial |-> NoVal, outcome |-> NoVal, regs |-> {}]
NoManager == [procs |-> [h \in Procs |-> NoProc],
              processes |-> [s \in ManagerSerials |-> 0],
              spawned |-> 0, stop |-> NoStop, stops |-> 0]
ManagerIdle == mg = NoManager

\* The key deviceManager.get(serial) looks up: the registry is keyed by the
\* ids uuidv4() produced, and a serial 'emulator-<port>' is none of them.
registryKey(serial) == 0

\* startEmulator({avd, port}) up to its first await: the process is spawned,
\* its close handler is installed and this.processes.set(serial, process).
MG_StartEmulator(port) ==
    /\ mg.spawned < MaxProcs
    /\ LET h == mg.spawned + 1
           serial == serialOf(port)
       IN mg' = [mg EXCEPT !.spawned = h,
                           !.procs[h] = [serial |-> serial, state |-> "running",
                                         pc |-> "boot", id |-> 0],
                           !.processes[serial] = h]
    /\ UNCHANGED <<regVars, now, routeVars, shotVars, bootVars, dlgVars, svcVars,
                   clickVars, engineVars, startVars, adbCall, up, kl, px>>

\* waitForBoot of the start that spawned h ends: it returns true, or it throws
\* its timeout and the catch of startEmulator logs and rethrows.
MG_BootEnds(h, booted) ==
    /\ mg.procs[h].pc = "boot"
    /\ mg' = [mg EXCEPT !.procs[h].pc = IF booted THEN "configure" ELSE "failed"]
    /\ UNCHANGED <<regVars, now, routeVars, shotVars, bootVars, dlgVars, svcVars,
                   clickVars, engineVars, startVars, adbCall, up, kl, px>>

\* configureDevice of the start that spawned h ends: after a success the
\* device is registered and the call returns; a failure is logged and rethrown.
MG_ConfigureEnds(h, ok) ==
    /\ mg.procs[h].pc = "configure"
    /\ IF ok
       THEN \E id \in Ids \ usedIds :
               LET port == CHOOSE p \in Ports : serialOf(p) = mg.procs[h].serial
                   d == NewDevice(id, "android", NoVal, managerMeta(port), now)
               IN
               /\ mg' = [mg EXCEPT !.procs[h].pc = "done", !.procs[h].id = id]
               /\ devices' = MapSet(devices, id, d)
               /\ usedIds' = usedIds \cup {id}
               /\ lastStored' = MapSet(lastStored, id, d)
               /\ dmRet' = [op |-> "register", id |-> id, outcome |-> "return",
                            error |-> NoVal, value |-> d]
       ELSE /\ mg' = [mg EXCEPT !.procs[h].pc = "failed"]
            /\ UNCHANGED regVars
    /\ UNCHANGED <<now, routeVars, shotVars, bootVars, dlgVars, svcVars,
                   clickVars, engineVars, startVars, adbCall, up, kl, px>>

\* The 'close' event of process h: this.processes.delete(serial).
MG_ProcessCloses(h) ==
    /\ mg.procs[h].state \in {"running", "killed"}
    /\ mg' = [mg EXCEPT !.procs[h].state = "exited",
                        !.processes[mg.procs[h].serial] = 0]
    /\ UNCHANGED <<regVars, now, routeVars, shotVars, bootVars, dlgVars, svcVars,
                   clickVars, engineVars, startVars, adbCall, up, kl, px>>

\* stopEmulator(serial) up to its await: the process this.processes holds for
\* the serial, if any, is sent SIGTERM and the entry is deleted; then
\* 'adb -s <serial> emu kill' is started.
MG_StopEmulator(serial) ==
    /\ mg.stop.pc \in {"idle", "done"}
    /\ mg.stops < MaxStops
    /\ LET h == mg.processes[serial] IN
       mg' = [mg EXCEPT
                !.procs = IF h # 0 /\ mg.procs[h].state = "running"
                          THEN [@ EXCEPT ![h].state = "killed"] ELSE @,
                !.processes[serial] = 0,
                !.stop = [pc |-> "emu kill", serial |-> serial, outcome |-> NoVal,
                          regs |-> {mg.procs[p].id : p \in
                                      {q \in Procs : /\ mg.procs[q].serial = serial
                                                     /\ mg.procs[q].pc = "done"}}],
                !.stops = @ + 1]
    /\ UNCHANGED <<regVars, now, routeVars, shotVars, bootVars, dlgVars, svcVars,
                   clickVars, engineVars, startVars, adbCall, up, kl, px>>

\* 'emu kill' settles. A success ends every emulator that answers to the
\* serial, a failure is ignored.  Then deviceManager.get(serial) is looked up,
\* a device that is found is set offline, and the call returns success.
MG_EmuKillSettles(ok) ==
    /\ mg.stop.pc = "emu kill"
    /\ LET key == registryKey(mg.stop.serial) IN
       /\ mg' = [mg EXCEPT
                   !.procs = [h \in Procs |->
                                IF ok /\ @[h].serial = mg.stop.serial
                                      /\ @[h].state = "running"
                                THEN [@[h] EXCEPT !.state = "killed"] ELSE @[h]],
                   !.stop = [@ EXCEPT !.pc = "done", !.outcome = "return"]]
       /\ devices' = IF get(devices, key) # NullDevice
                     THEN [devices EXCEPT ![key].status = "offline"]
                     ELSE devices
    /\ UNCHANGED <<usedIds, lastStored, dmRet, now, routeVars, shotVars, bootVars,
                   dlgVars, svcVars, clickVars, engineVars, startVars, adbCall, up,
                   kl, px>>

MG_StartEmulatorCall == \E port \in Ports : MG_StartEmulator(port)
MG_BootSettles == \E h \in Procs, booted \in BOOLEAN : MG_BootEnds(h, booted)
MG_ConfigureSettles == \E h \in Procs, ok \in BOOLEAN : MG_ConfigureEnds(h, ok)
MG_ProcessExits == \E h \in Procs : MG_ProcessCloses(h)
MG_StopEmulatorCall == \E serial \in ManagerSerials : MG_StopEmulator(serial)
MG_EmuKillCloses == \E ok \in BOOLEAN : MG_EmuKillSettles(ok)
NextManager ==
    \/ MG_StartEmulatorCall
    \/ MG_BootSettles
    \/ MG_ConfigureSettles
    \/ MG_ProcessExits
    \/ MG_StopEmulatorCall
    \/ MG_EmuKillCloses

RestIdle ==
    StartIdle /\ AdbIdle /\ ProxyIdle /\ KillIdle /\ OverlapIdle /\ ManagerIdle

(***************************************************************************)
(* Specifications: one per component, the other components idle.           *)
(***************************************************************************)
InitRegistry == RestIdle /\ RegIdle /\ RouteIdle /\ ShotIdle /\ BootIdle /\ DialogIdle /\ ServiceIdle /\ ClickIdle /\ EngineIdle
SpecRegistry == InitRegistry /\ [][NextRegistry]_vars

InitRoute == RestIdle /\ RegIdle /\ RouteIdle /\ ShotIdle /\ BootIdle /\ DialogIdle /\ ServiceIdle /\ ClickIdle /\ EngineIdle
SpecRoute == InitRoute /\ [][NextRoute]_vars
\* Route tasks of registered devices and the clearing of the registry that
\* ends stopAllEmulators and cleanupAll.
RegisterAndroidCall == \E s \in Serials : DM_Register("android", NoVal, [deviceId |-> s])
SimulateRouteKnownCall ==
    /\ \E id \in Ids : ensure(devices, id).outcome = "return"
    /\ SimulateRouteCall
NextRouteClear ==
    \/ RegisterAndroidCall
    \/ SimulateRouteKnownCall
    \/ TickFires
    \/ GPSResolves
    \/ GPSRejects
    \/ DM_Clear
SpecRouteClear == InitRoute /\ [][NextRouteClear]_vars

\* A timer that is set keeps firing and every setGPS call settles.
SpecRouteLive ==
    /\ InitRoute /\ [][NextRoute]_vars
    /\ \A k \in RouteCalls :
          /\ WF_vars(TickFire(k))
          /\ WF_vars(SetGPSResolves(k) \/ SetGPSRejects(k))

InitShot == RestIdle /\ RegIdle /\ RouteIdle /\ BootIdle /\ DialogIdle /\ ServiceIdle /\ ClickIdle /\ EngineIdle /\ shRev \in Revisions /\ shInv = <<>>
SpecShot == InitShot /\ [][NextShot]_vars

\* The probe process ends and the timer fires: every step of waitForBoot that
\* is enabled is taken.
InitBoot == RestIdle /\ RegIdle /\ RouteIdle /\ ShotIdle /\ BootIdle /\ DialogIdle /\ ServiceIdle /\ ClickIdle /\ EngineIdle
SpecBoot == InitBoot /\ [][NextBoot]_vars /\ WF_vars(NextBoot)

InitDialog ==
    /\ RestIdle
    /\ RegIdle /\ RouteIdle /\ ShotIdle /\ BootIdle /\ ServiceIdle /\ ClickIdle /\ EngineIdle
    /\ dlgRev \in DialogRevisions
    /\ dlg = NoDialog
SpecDialog == InitDialog /\ [][NextDialog]_vars

InitService ==
    /\ RestIdle
    /\ RegIdle /\ RouteIdle /\ ShotIdle /\ BootIdle /\ DialogIdle /\ ClickIdle /\ EngineIdle
    /\ wipeFlag = FALSE
    /\ svcArms = 0
    /\ svcStarts = <<>>
    /\ svcRet = NoRegister
    /\ svcPm2 \in BOOLEAN
    /\ cuCalls = 0
    /\ cu = NoCleanup
SpecService == InitService /\ [][NextService]_vars

InitClick ==
    /\ RestIdle
    /\ RegIdle /\ RouteIdle /\ ShotIdle /\ BootIdle /\ DialogIdle /\ ServiceIdle
    /\ EngineIdle
    /\ ckRev \in ClickRevisions
    /\ ck = NoClick
SpecClick == InitClick /\ [][NextClick]_vars

\* register() alone; the flag file may be there from an earlier run of the
\* service.
NextRegister ==
    \/ RegisterEmulatorCall
    \/ RegisterKnownCall
    \/ RegisterInvalidCall
InitRegister ==
    /\ RestIdle
    /\ RegIdle /\ RouteIdle /\ ShotIdle /\ BootIdle /\ DialogIdle /\ ClickIdle /\ EngineIdle
    /\ wipeFlag \in BOOLEAN
    /\ svcArms = 0
    /\ svcStarts = <<>>
    /\ svcPm2 = FALSE
    /\ svcRet = NoRegister
    /\ cuCalls = 0
    /\ cu = NoCleanup
SpecRegister == InitRegister /\ [][NextRegister]_vars

\* The two paths that start an emulator and register its device.
RegisterSpawnsCall ==
    \E headless \in BOOLEAN, unlinkOk \in BOOLEAN, pid \in Pids \cup {NoVal},
       port \in Ports :
        RegisterEmulator("android", [deviceId |-> NoVal], headless, unlinkOk, pid, port)
NextStart ==
    \/ EM_StartEmulatorCall
    \/ EM_BootProbeCloses
    \/ EM_BootSleepFires
    \/ EM_ConfigureCloses
    \/ RegisterSpawnsCall
InitStart ==
    /\ RegIdle /\ RouteIdle /\ ShotIdle /\ BootIdle /\ DialogIdle /\ ClickIdle /\ EngineIdle
    /\ StartIdle /\ AdbIdle /\ ProxyIdle /\ KillIdle /\ OverlapIdle /\ ManagerIdle
    /\ wipeFlag \in BOOLEAN
    /\ svcArms = 0
    /\ svcStarts = <<>>
    /\ svcPm2 = FALSE
    /\ svcRet = NoRegister
    /\ cuCalls = 0
    /\ cu = NoCleanup
SpecStart == InitStart /\ [][NextStart]_vars

InitAdb ==
    /\ RegIdle /\ RouteIdle /\ ShotIdle /\ BootIdle /\ DialogIdle /\ ServiceIdle
    /\ ClickIdle /\ EngineIdle /\ RestIdle
SpecAdb == InitAdb /\ [][NextAdb]_vars

NextOverlap ==
    \/ RegisterAndroidCall
    \/ OverlapUpdateProxyCall
    \/ OverlapCommandCloses
InitOverlap ==
    /\ RegIdle /\ RouteIdle /\ ShotIdle /\ BootIdle /\ DialogIdle /\ ServiceIdle
    /\ ClickIdle /\ EngineIdle /\ RestIdle
SpecOverlap == InitOverlap /\ [][NextOverlap]_vars

InitManager ==
    /\ RegIdle /\ RouteIdle /\ ShotIdle /\ BootIdle /\ DialogIdle /\ ServiceIdle
    /\ ClickIdle /\ EngineIdle /\ RestIdle
SpecManager == InitManager /\ [][NextManager]_vars

InitProxy ==
    /\ RegIdle /\ RouteIdle /\ ShotIdle /\ BootIdle /\ DialogIdle /\ ServiceIdle
    /\ ClickIdle /\ EngineIdle /\ RestIdle
SpecProxy == InitProxy /\ [][NextProxy]_vars

InitKill ==
    /\ RegIdle /\ RouteIdle /\ ShotIdle /\ BootIdle /\ DialogIdle /\ ServiceIdle
    /\ ClickIdle /\ EngineIdle /\ StartIdle /\ AdbIdle /\ ProxyIdle /\ OverlapIdle
    /\ ManagerIdle
    /\ \E rev \in KillRevisions, c \in ControlProcesses, left \in SUBSET Leftovers :
          kl = [pc |-> "ready", rev |-> rev, control |-> c, procs |-> {c} \cup left,
                step |-> 0]
SpecKill == InitKill /\ [][NextKill]_vars

InitEngine ==
    /\ RestIdle
    /\ RegIdle /\ RouteIdle /\ ShotIdle /\ BootIdle /\ DialogIdle /\ ServiceIdle
    /\ ClickIdle /\ EngineIdle
SpecEngine == InitEngine /\ [][NextEngine]_vars

\* The waypoint list of length n, by position: <<0, 1, ..., n-1>>.
Waypoints(n) == [i \in 1..n |-> i - 1]

IsPrefix(s, t) == Len(s) <= Len(t) /\ \A i \in 1..Len(s) : s[i] = t[i]

(***************************************************************************)
(* C1: a route task with n > 0 waypoints and loop=false, none of whose     *)
(* setGPS calls failed, issues exactly the fixes 0, 1, ..., n-1 in that    *)
(* order and its timer is cleared after the n-th fix, also when a tick     *)
(* fires while an earlier tick of the task still awaits setGPS.            *)
(***************************************************************************)
C1_RouteOnceInOrder ==
    \A k \in RouteCalls :
        LET t == rtTask[k] IN
        (t.state = "started" /\ ~t.loop /\ t.n > 0 /\ ~t.failed) =>
            /\ IsPrefix(rtFixes[k], Waypoints(t.n))
            /\ (Len(rtFixes[k]) = t.n /\ t.pending = 0) => k \notin rtTimers

(***************************************************************************)
(* C2: a route task with n > 0 waypoints and loop=true, none of whose      *)
(* setGPS calls failed, issues waypoint (i-1) mod n as its i-th fix and    *)
(* its timer is never cleared by the simulator.                            *)
(***************************************************************************)
C2_RouteLoopInOrder ==
    \A k \in RouteCalls :
        LET t == rtTask[k] IN
        (t.state = "started" /\ t.loop /\ t.n > 0 /\ ~t.failed) =>
            /\ \A i \in 1..Len(rtFixes[k]) : rtFixes[k][i] = (i - 1) % t.n
            /\ k \in rtTimers

\* The invocations whose promises decide the call's, first to last.
RECURSIVE Chain(_, _)
Chain(inv, i) ==
    IF inv[i].res = "follows" THEN <<i>> \o Chain(inv, inv[i].child) ELSE <<i>>

\* MAX_RETRIES of the loaded revision.
maxRetries == IF shRev = "head" THEN MAX_RETRIES_HEAD ELSE MAX_RETRIES_REV3

\* Attempts 1..k of the call passed the preflight and captured zero bytes
\* with exit code 0 (and no 'error' event).
ZeroByteAttempts(ch, k) ==
    \A j \in 1..k :
        /\ shInv[ch[j]].pre = "pass"
        /\ shInv[ch[j]].cap = "zero"
        /\ ~shInv[ch[j]].errored

(***************************************************************************)
(* C5: when the preflight passes on every attempt and the capture yields   *)
(* zero bytes on attempts 1..k, k < maxRetries, the failed attempts are    *)
(* retried and not surfaced, and a capture of N > 0 bytes with exit code 0 *)
(* on attempt k+1 resolves the call with the stream of those N bytes.      *)
(***************************************************************************)
C5_ZeroByteCapturesRetried ==
    shInv # <<>> =>
        LET ch == Chain(shInv, 1)
            k == Len(ch) - 1
            last == shInv[ch[Len(ch)]]
        IN  /\ (ZeroByteAttempts(ch, Len(ch)) /\ Len(ch) < maxRetries)
                    => Outcome(shInv, 1) = "pending"
            /\ (ZeroByteAttempts(ch, k) /\ k < maxRetries
                    /\ last.pre = "pass" /\ last.cap = "data")
                    => /\ Outcome(shInv, 1) = "resolved"
                       /\ last.bytes > 0

(***************************************************************************)
(* C6: one screenshotStream call is bounded: no invocation has a           *)
(* retryCount above the maximum, and the call starts at most the maximum   *)
(* number of attempts (retryCount 0 up to the last retryCount a retry is   *)
(* started with), every retry branch counted.                              *)
(***************************************************************************)
C6_ScreenshotBounded ==
    /\ \A i \in DOMAIN shInv : shInv[i].r <= maxRetries
    /\ Len(shInv) <= retryLimit(shRev) + 1

\* C3: every cleanupAll call returns a summary whose wipeNextStart is true and
\* leaves the device registry empty at the moment it returns, whatever
\* sub-stages failed.
C3_CleanupLeavesRegistryEmpty ==
    cu.pc = "done" => cu.summary.wipeNextStart /\ cu.atReturn = {}

\* The start that first follows the latest arming of the flag.
FirstAfterArming(i) ==
    /\ svcStarts[i].arms > 0
    /\ \A j \in 1..(i - 1) : svcStarts[j].arms < svcStarts[i].arms

HasWipeData(s) == \E n \in 1..Len(s.args) : s.args[n] = "-wipe-data"

IsBootedValue(out) ==
    \E k \in 1..Len(out) :
        /\ out[k] = "1"
        /\ \A j \in 1..Len(out) : j # k => out[j] \in Whitespace

ReportsBooted(p) == p.code = 0 /\ IsBootedValue(p.out)

\* C7 (safety): waitForBoot returns true only when the probe that just closed
\* exited with 0 and printed exactly the booted value 1 (after trimming), and
\* does so as soon as one does; it fails with Timeout only when the timeout
\* has elapsed and no probe reported the booted value; probes that failed,
\* however many, leave the call waiting.
C7_BootSafety ==
    /\ wbRes = "true" =>
          /\ wbProbes # <<>>
          /\ ReportsBooted(wbProbes[Len(wbProbes)])
    /\ wbRes = "Timeout" =>
          /\ wbNow - wbStart >= wbTimeout
          /\ \A i \in 1..Len(wbProbes) : ~ReportsBooted(wbProbes[i])
    /\ wbRes = "none" =>
          \A i \in 1..Len(wbProbes) : ~ReportsBooted(wbProbes[i])
    /\ (wbPc = "done") <=> (wbRes # "none")

\* C7: waitForBoot returns success only after a probe returned exactly the
\* booted value '1' (after trimming); if no probe ever returns it, the call
\* fails with Timeout once the timeout has elapsed, whatever number of probes
\* failed with an error; a probe error alone makes it neither fail nor succeed.
C7_WaitForBoot ==
    /\ []C7_BootSafety
    /\ (wbPc # "idle") ~> (wbRes \in {"true", "Timeout"})

\* Success on a probe that printed the booted value and a line feed, after a
\* probe that failed with an error.
C7_Witness ==
    /\ wbRes = "true"
    /\ Len(wbProbes) = 2
    /\ wbProbes[1].code # 0
    /\ wbProbes[2] = [code |-> 0, out |-> <<"1", "\n">>]

\* The marker substrings of a system dialog (part_005:29-32).
DialogMarkers == {<<"System UI ", "isn't responding">>, <<"isn't responding">>,
                  <<"com.android.systemui">>, <<"android:id/alertTitle">>}

\* C8: whenever the UI dump that was pulled and read contains none of the
\* dialog marker substrings, handleSystemDialogs returns false at once and has
\* issued no clickByText and no tap command.
C8_NoMarkerNoClick ==
    (dlg.read /\ \A m \in DialogMarkers : ~Includes(dlg.xmlData, m)) =>
        /\ dlg.pc = "done"
        /\ dlg.res = "false"
        /\ dlg.clicks = <<>>

\* The latest revision read a dump with a Wait button in it and no marker.
C8_Witness ==
    /\ dlgRev = "v3"
    /\ dlg.read
    /\ dlg.xmlData = <<"<node/>", "Wait">>
    /\ dlg.pc = "done"
    /\ dlg.res = "false"

\* C9: handleSystemDialogs never throws or rejects and returns a boolean; when
\* the UI dump, the file pull or the file read failed, what it returns is
\* false, whether or not the temp-file removal failed as well.
C9_DialogNeverThrows ==
    /\ dlg.res \in {"none", "false", "true"}
    /\ (dlg.pc = "done" /\ dlg.failed \cap {"dump", "pull", "read"} # {}) =>
           dlg.res = "false"

(***************************************************************************)
(* C10: after any sequence of register, update and clear, ensure(id)       *)
(* throws 'Device not found' exactly when id is not in the registry, and   *)
(* otherwise returns the record most recently stored for id by register or *)
(* update, which is also what get(id) returns.                             *)
(***************************************************************************)
C10_EnsureReturnsLastStored ==
    dmRet.op = "ensure" =>
        IF dmRet.id \in DOMAIN lastStored
        THEN /\ dmRet.outcome = "return"
             /\ dmRet.value = lastStored[dmRet.id]
             /\ dmRet.value = get(devices, dmRet.id)
        ELSE /\ dmRet.outcome = "throw"
             /\ dmRet.error = "Device not found"

\* ensure() returned a record that update() had rewritten.
C10_Witness ==
    /\ dmRet.op = "ensure"
    /\ dmRet.outcome = "return"
    /\ dmRet.value.status = "busy"
    /\ dmRet.value.proxy # NoVal

\* The registry maps every key to a record whose id field is that key, so no
\* two records share an id.
C11_KeysAreIds ==
    /\ \A k \in DOMAIN devices : devices[k].id = k
    /\ \A k1, k2 \in DOMAIN devices : devices[k1].id = devices[k2].id => k1 = k2
    /\ dmRet.op = "register" => dmRet.value.id = dmRet.id

\* C11: in every reachable registry state no two device records have the same
\* id and every record is stored under the key equal to its id field; a
\* register step never hands out an id that a record of the registry held
\* just before it.
C11_UniqueIds ==
    /\ []C11_KeysAreIds
    /\ [][(dmRet'.op = "register" /\ devices' # devices) =>
              /\ dmRet'.id \notin DOMAIN devices
              /\ \A k \in DOMAIN devices : devices[k].id # dmRet'.id
              /\ DOMAIN devices' = DOMAIN devices \cup {dmRet'.id}]_vars

\* Two records are registered and one of them was rewritten by update().
C11_Witness ==
    /\ Cardinality(DOMAIN devices) = 2
    /\ \E k \in DOMAIN devices : devices[k].status = "busy"
    /\ dmRet.op = "update"

\* ---- C12 ----------------------------------------------------------------
\* The nodes of the dump that match, as positions in the document.
MatchSet(d, text) ==
    {i \in 1..Len(d) :
        /\ d[i].text # <<>>
        /\ \E a \in 0..Len(d[i].text) : \E b \in a..Len(d[i].text) :
              toLowerCase(SubSeq(d[i].text, a + 1, b)) = toLowerCase(text)}
\* The k-th (from 0) of them in document order.
NthMatch(d, text, k) ==
    CHOOSE i \in MatchSet(d, text) :
        Cardinality({j \in MatchSet(d, text) : j < i}) = k
FloorHalf(n) == CHOOSE q \in 0..n : 2 * q <= n /\ n < 2 * (q + 1)

C13_EveryStageRunsAndIsRecorded ==
    cu.pc = "done" =>
        /\ Len(cu.summary.stopResults) = Len(cu.list)
        /\ cu.enumerated # NoVal
        /\ Len(cu.summary.adbEnumeratedKills) = cu.found
        /\ Len(cu.summary.processKills) = KillPatterns
        /\ cu.summary.adbKill # NoVal
        /\ cu.wrote # NoVal
        /\ cu.summary.deepClean # NoVal
        /\ cu.summary.wipeNextStart = (cu.wrote = "written")

\* ---- C14 ----------------------------------------------------------------
AdbCommands == {"adb", "adb getprop", "adb screencap"}
CalledBefore(log, first, then) ==
    \A i \in DOMAIN log : log[i] = then => \E j \in 1..(i - 1) : log[j] = first
\* C14: for an android device with a serial, launchApp, tap and clickByText
\* call handleSystemDialogs before the controller operation and
\* screenshotStream calls it before the capture; no other operation ever
\* calls handleSystemDialogs.
C14_DialogsBeforeControl ==
    /\ (ae.platform = "android" /\ ae.serial # NoVal /\ ae.op \in Wrapped) =>
           CalledBefore(ae.log, "handleSystemDialogs", "controller." \o ae.op)
    /\ (ae.platform = "android" /\ ae.serial # NoVal /\ ae.op = "screenshotStream") =>
           CalledBefore(ae.log, "handleSystemDialogs", "adb screencap")
    /\ ae.op \notin Wrapped \cup {"screenshotStream"} =>
           \A i \in DOMAIN ae.log : ae.log[i] # "handleSystemDialogs"

\* ---- C15 ----------------------------------------------------------------
\* C15: an operation dispatched on an ios device runs no adb command, ends
\* with status 501, and no route task is ever started for an ios device.
C15_IosUnsupported ==
    /\ (ae.known /\ ae.platform = "ios") =>
           /\ \A i \in DOMAIN ae.log : ae.log[i] \notin AdbCommands
           /\ ae.pc = "done" => ae.status = "501"
    /\ ~(aeTask.active /\ aeTask.platform = "ios")

\* ---- C16 ----------------------------------------------------------------
\* C16: an operation dispatched with an id that is not in the registry fails
\* with status 404, has run no command, and leaves the registry as it was.
C16_UnknownIdNotFound ==
    /\ [](ae.pc = "done" /\ ~ae.known =>
              ae.res = "thrown" /\ ae.status = "404" /\ ae.log = <<>>)
    /\ [][(ae'.pc = "done" /\ ~ae'.known /\ ae' # ae) => devices' = devices]_vars

\* ---- C17 ----------------------------------------------------------------
StopResults == cu.summary.stopResults
Succeeded(att, op) == \E i \in DOMAIN att : att[i].op = op /\ att[i].ok
\* What holds of the entries stopAllEmulators has pushed so far.
C17_Entries ==
    /\ Len(StopResults) <= Len(cu.list)
    /\ cu.pc \notin {"idle", "stop"} => Len(StopResults) = Len(cu.list)
    /\ \A i \in DOMAIN StopResults :
          LET r == StopResults[i]
              att == cu.attempts[i] IN
          /\ DOMAIN r = {"deviceId", "serial", "pid", "stopped", "errors"}
          /\ r.deviceId = cu.list[i]
          /\ Len(att) >= 4
          /\ \A j \in 1..4 : att[j].op = StopErrors[j]
          /\ Len(att) > 4 => Len(att) = 5 /\ att[5].op = "kill pid" /\ ~att[4].ok
          /\ r.stopped <=> (Succeeded(att, "adb emu kill") \/ Succeeded(att, "kill pid"))
Registered == svcRet'.n # svcRet.n /\ svcRet'.outcome = "return"
\* C18: a register call that succeeds starts an emulator if and only if its
\* platform is android and its payload has no meta.deviceId (for ios, or
\* with a deviceId, nothing is started and the wipe flag is left alone), and
\* it adds exactly one record, with status ready, to the registry.
C18_RegisterSpawnsIffNeeded ==
    [][Registered =>
          /\ (Len(svcStarts') = Len(svcStarts) + 1) <=>
                 (svcRet'.platform = "android" /\ svcRet'.deviceId = NoVal)
          /\ (svcRet'.platform = "ios" \/ svcRet'.deviceId # NoVal) =>
                 svcStarts' = svcStarts /\ wipeFlag' = wipeFlag
          /\ \E id \in Ids \ DOMAIN devices :
                 /\ DOMAIN devices' = DOMAIN devices \cup {id}
                 /\ devices'[id].status = "ready"
                 /\ devices'[id].platform = svcRet'.platform
                 /\ \A k \in DOMAIN devices : devices'[k] = devices[k]]_vars
\* An ios device and an android device registered with its deviceId are in
\* the registry and no emulator was ever started.
C18_Witness ==
    /\ svcStarts = <<>>
    /\ \E k \in DOMAIN devices : devices[k].platform = "ios"
    /\ \E k \in DOMAIN devices :
          devices[k].platform = "android" /\ devices[k].meta.deviceId # NoVal
    /\ svcRet.outcome = "return"

\* ---- C19 ----------------------------------------------------------------
\* C19: a register call during which the emulator could not be spawned
\* fails, and adds no record to the registry.
C19_SpawnFailureFailsRegister ==
    /\ [](svcRet.spawn = "failed" => svcRet.outcome = "throw")
    /\ [][(svcRet'.n # svcRet.n /\ svcRet'.spawn = "failed") => devices' = devices]_vars

\* ---- C20 ----------------------------------------------------------------
\* C20: a register call whose platform is missing or is neither android nor
\* ios throws with status 400 and has no effect: no emulator is started, the
\* wipe flag is not consumed, the registry is unchanged.
C20_InvalidPlatformRejected ==
    [][(svcRet'.n # svcRet.n /\ svcRet'.platform \notin {"android", "ios"}) =>
          /\ svcRet'.outcome = "throw"
          /\ svcRet'.status = "400"
          /\ svcStarts' = svcStarts
          /\ wipeFlag' = wipeFlag
          /\ devices' = devices
          /\ usedIds' = usedIds]_vars
\* A payload without platform was rejected while the flag was armed and a
\* device was registered.
C20_Witness ==
    /\ svcRet.outcome = "throw"
    /\ svcRet.platform = NoVal
    /\ wipeFlag
    /\ devices # EmptyMap

\* ---- C21 ----------------------------------------------------------------
\* C21: once a setGPS call of a route task has failed the task's timer is
\* cleared, so no tick of that task starts afterwards, and the failure
\* clears the timer of no other task.
C21_FailedTickCancelsOwnTask ==
    /\ [](\A k \in RouteCalls : rtTask[k].failed => k \notin rtTimers)
    /\ [][\A k \in RouteCalls :
             (rtTask'[k].failed /\ ~rtTask[k].failed) =>
                 \A j \in RouteCalls \ {k} : j \in rtTimers => j \in rtTimers']_vars

\* ---- C22 ----------------------------------------------------------------
\* C22: two route tasks that were started have distinct taskIds, and the
\* handle stored under a task's taskId is that task's own timer.
C22_TaskIdsDistinct ==
    \A j, k \in RouteCalls :
        (rtTask[j].state = "started" /\ rtTask[k].state = "started") =>
            /\ j # k => rtTask[j].taskId # rtTask[k].taskId
            /\ rtHandles[rtTask[k].taskId] = k

(***************************************************************************)
(* C23: every Android record that an emulator-starting path                *)
(* (deviceService.register, EmulatorManager.startEmulator) puts into the   *)
(* registry has meta.deviceId equal to the serial emulator-<port> of the   *)
(* emulator that path spawned.                                             *)
(***************************************************************************)
C23_SpawnedRecordHasDeviceId ==
    \A id \in DOMAIN emHist :
        /\ id \in DOMAIN devices
        /\ devices[id].platform = "android"
        /\ devices[id].meta.deviceId = serialOf(emHist[id].port)

(***************************************************************************)
(* C24: a device whose emulator this system spawned is registered only     *)
(* after boot completion was observed and the baseline configuration was   *)
(* applied: the events before every such registration are spawn, boot      *)
(* observed, configure, register, in that order.                           *)
(***************************************************************************)
C24_RegisterAfterBootAndConfigure ==
    \A id \in DOMAIN emHist :
        emHist[id].log = <<"spawn", "boot", "configure", "register">>

(***************************************************************************)
(* C25: every adb invocation is classified by its exit code alone: exit    *)
(* code 0 is a success that carries the stdout payload, whatever was       *)
(* written to stderr, and any other exit code is a failure; for the adb    *)
(* helper, executeAdb and executeAdbCommand alike.                         *)
(***************************************************************************)
C25_ClassifiedByExitCode ==
    adbCall.pc = "settled" =>
        IF adbCall.code = 0
        THEN /\ adbCall.res.settled = "resolved"
             /\ trim(adbCall.res.value) = trim(adbCall.stdout)
        ELSE adbCall.res.settled = "rejected"

(***************************************************************************)
(* C26: updateProxy(id, proxy) with a known id and a non-empty proxy       *)
(* changes only the proxy field of that device's record and leaves every   *)
(* other device as it was; with an empty proxy it fails with 400 and with  *)
(* an unknown id with 404, and in both cases the registry is unchanged and *)
(* no adb command is issued.                                               *)
(***************************************************************************)
C26_UpdateProxyFrame ==
    /\ [](up.outcome = "throw" => up.adb = <<>> /\ up.pc = "done")
    /\ [][up'.turn # up.turn =>
            IF up'.proxy \in {NoVal, ""}
            THEN /\ up'.outcome = "throw" /\ up'.status = "400"
                 /\ devices' = devices /\ up'.adb = <<>>
            ELSE IF up'.id \notin DOMAIN devices
            THEN /\ up'.outcome = "throw" /\ up'.status = "404"
                 /\ devices' = devices /\ up'.adb = <<>>
            ELSE /\ up'.outcome = "return"
                 /\ DOMAIN devices' = DOMAIN devices
                 /\ \A k \in DOMAIN devices \ {up'.id} : devices'[k] = devices[k]
                 /\ devices'[up'.id] = [devices[up'.id] EXCEPT !.proxy = up'.proxy]
                 /\ \A f \in DeviceFields \ {"proxy"} :
                        devices'[up'.id][f] = devices[up'.id][f]]_vars

\* A second device is registered and the call gave the first a proxy it did
\* not have; the adb commands of applyProxy have all been issued.
C26_Witness ==
    /\ up.outcome = "return" /\ up.pc = "done" /\ Len(up.adb) = Len(ProxyCommands)
    /\ DOMAIN devices = Ids
    /\ devices[up.id].proxy = up.proxy
    /\ lastStored[up.id].status = "busy"
    /\ \E k \in Ids \ {up.id} : devices[k].proxy # up.proxy

(***************************************************************************)
(* C27: every force kill cleanupAll issues selects by exact process name,  *)
(* none selects by a pattern that could match the control process, and the *)
(* control process is alive throughout every cleanup.                      *)
(***************************************************************************)
C27_ControlProcessSurvives ==
    kl.pc \in {"killing", "done"} =>
        /\ kl.control \in kl.procs
        /\ \A i \in 1..Len(killPatterns(kl.rev)) :
              (kl.pc = "done" \/ i <= kl.step) => killPatterns(kl.rev)[i].flag = "-x"

\* Invocation i started its capture command.
CaptureStarted(i) == shInv[i].capAt # "none"

(***************************************************************************)
(* C28: in every screenshotStream attempt the capture command starts only  *)
(* after that attempt's preflight passed; handleSystemDialogs is invoked   *)
(* exactly once per passing preflight and has completed before the capture *)
(* command of the same attempt starts; its result never decides whether    *)
(* the attempt succeeds.                                                   *)
(***************************************************************************)
C28_DialogsOnceBeforeCapture ==
    /\ [](\A i \in DOMAIN shInv :
            /\ CaptureStarted(i) => shInv[i].pre = "pass"
            /\ shInv[i].dialogs = (IF shInv[i].pre = "pass" THEN 1 ELSE 0)
            /\ CaptureStarted(i) => shInv[i].capAt = "settled")
    /\ [][\A i \in DOMAIN shInv :
            (shInv[i].dlg = "running" /\ shInv'[i].dlg # "running") =>
                shInv'[i].res = shInv[i].res]_vars

\* The invocations of the call that set up a retry, and the delay each waited.
Waited(i) == shInv[i].wait > 0

(***************************************************************************)
(* C29: before the retry that follows a retryable failure with retry       *)
(* counter r (a preflight or a capture failure) the call waits its         *)
(* baseline delay times (r + 1), so the waits of one call strictly         *)
(* increase from one retry to the next.                                    *)
(***************************************************************************)
C29_BackoffGrows ==
    \A i \in DOMAIN shInv :
        Waited(i) =>
            /\ shInv[i].wait =
                  (IF shInv[i].pre = "pass" THEN captureDelay(shRev, 0)
                   ELSE preflightDelay(shRev, 0)) * (shInv[i].r + 1)
            /\ \A j \in DOMAIN shInv :
                  (Waited(j) /\ shInv[j].parent = i) => shInv[i].wait < shInv[j].wait

\* The nodes of dump d that the query selects: with exact those whose text
\* equals it, else those whose text contains it, both without regard to case.
\* (The nodes of the dumps here carry no content-desc.)
Selected(d, text, exact) ==
    IF exact
    THEN {i \in 1..Len(d) : d[i].text # <<>> /\ toLowerCase(d[i].text) = toLowerCase(text)}
    ELSE MatchSet(d, text)
NthSelected(d, text, exact, k) ==
    CHOOSE i \in Selected(d, text, exact) :
        Cardinality({j \in Selected(d, text, exact) : j < i}) = k

(***************************************************************************)
(* C30: clickByText with exact=true counts as matches only the nodes whose *)
(* text or content-description equals the query without regard to case,    *)
(* with exact=false those that contain it; the match count and the         *)
(* index-th match come from that filtered list.                            *)
(***************************************************************************)
C30_ExactOrSubstring ==
    ck.parsed =>
        LET S == Selected(ck.doc, ck.text, ck.exact)
            m == Cardinality(S) IN
        /\ m = 0 => ck.res = "thrown" /\ ck.error = "No elements found"
        /\ (m > 0 /\ ck.index >= m) => ck.res = "thrown" /\ ck.error = "Index out of bounds"
        /\ ck.res = "returned" =>
              /\ clickResult(ckRev, ck).count = m
              /\ ck.bounds = ck.doc[NthSelected(ck.doc, ck.text, ck.exact, ck.index)].bounds

\* The labels in the order the claim gives them.
LabelOrder == <<"Wait", "OK", "Dismiss", "Close", "Yes", "No", "Cancel">>

(***************************************************************************)
(* C31: when a dialog marker is present, handleSystemDialogs tries the     *)
(* labels in the order Wait, OK, Dismiss, Close, Yes, No, Cancel, returns  *)
(* true right after the first click that succeeds without trying a later   *)
(* label, and returns false when no label could be clicked; a click never  *)
(* re-enters handleSystemDialogs (no second dump is started by a call).    *)
(***************************************************************************)
C31_ButtonsInOrder ==
    /\ [](dlgRev = "v3" =>
            /\ Len(dlg.clicks) <= Len(LabelOrder)
            /\ \A i \in 1..Len(dlg.clicks) : dlg.clicks[i] = LabelOrder[i]
            /\ dlg.clicks # <<>> => hasSystemDialog(dlgRev, dlg.xmlData)
            /\ (dlg.pc = "done" /\ dlg.read /\ hasSystemDialog(dlgRev, dlg.xmlData)) =>
                  /\ dlg.res \in {"true", "false"}
                  /\ dlg.res = "false" =>
                        Len(dlg.clicks) = Len(LabelOrder) /\ "click" \in dlg.failed)
    /\ [][dlgRev = "v3" =>
            /\ dlg'.pc = "dump" => dlg.pc \in {"idle", "dump"}
            /\ (dlg.pc = "click" /\ dlg' # dlg) =>
                  \/ dlg'.pc = "done" /\ dlg'.res = "true" /\ dlg'.clicks = dlg.clicks
                  \/ /\ "click" \in dlg'.failed
                     /\ IF Len(dlg.clicks) < Len(LabelOrder)
                        THEN dlg'.pc = "click" /\ Len(dlg'.clicks) = Len(dlg.clicks) + 1
                        ELSE dlg'.pc = "done" /\ dlg'.res = "false"]_vars

\* The first two clicks failed, the third (Dismiss) succeeded and the call
\* returned true.
C31_Witness ==
    /\ dlgRev = "v3"
    /\ dlg.pc = "done" /\ dlg.res = "true"
    /\ dlg.clicks = <<"Wait", "OK", "Dismiss">>
    /\ "click" \in dlg.failed

(***************************************************************************)
(* C32: every route task started with loop=false eventually stops firing   *)
(* ticks (its interval timer is cleared), for every waypoint list, the     *)
(* empty list included, provided each setGPS call completes or fails.      *)
(***************************************************************************)
C32_NonLoopingTaskStops ==
    \A k \in RouteCalls :
        [](rtTask[k].state = "started" /\ ~rtTask[k].loop => <>(k \notin rtTimers))

(***************************************************************************)
(* C33: after the registry has been cleared (the last step of              *)
(* stopAllEmulators and so of cleanupAll) no route task started before the *)
(* cleanup starts another tick or issues another GPS fix: the timers of    *)
(* the cleared devices are cancelled.                                      *)
(***************************************************************************)
C33_ClearCancelsRouteTimers ==
    /\ [](dmRet.op = "clear" => rtTimers = {})
    /\ [][dmRet.op = "clear" /\ dmRet'.op = "clear" =>
            \A k \in RouteCalls :
                /\ rtTask'[k].fired = rtTask[k].fired
                /\ rtFixes'[k] = rtFixes[k]]_vars

(***************************************************************************)
(* C34: every android device that stopAllEmulators removes from the        *)
(* registry has an entry in the results it returns, also a device that a   *)
(* register call added while stopAllEmulators was waiting for an adb       *)
(* command.                                                                *)
(***************************************************************************)
C34_RemovedDevicesHaveEntries ==
    [][(cu.pc \in {"idle", "stop"} /\ cu'.pc = "adbDevices") =>
          \A id \in DOMAIN devices :
              devices[id].platform = "android" =>
                  \E i \in DOMAIN cu'.summary.stopResults :
                      cu'.summary.stopResults[i].deviceId = id]_vars

\* The registered devices whose emulator register() spawned.
SpawnedByRegister ==
    {id \in DOMAIN devices \cap DOMAIN emHist : emHist[id].path = "register"}

(***************************************************************************)
(* C35: in every registry state no two devices whose emulator was spawned  *)
(* by register share an emulator port, hence the serial emulator-<port>:   *)
(* a port a registered device holds is never given to a second emulator.   *)
(***************************************************************************)
C35_PortsDistinct ==
    \A i, j \in SpawnedByRegister :
        i # j =>
            /\ emHist[i].port # emHist[j].port
            /\ devices[i].meta.deviceId # devices[j].meta.deviceId

\* Every call was made for device id and no applyProxy is running any more.
OverlapOver(id) ==
    /\ \A c \in OverlapCalls :
          px.calls[c].pc \in {"applied", "failed"} /\ px.calls[c].id = id
    /\ id \in DOMAIN devices

(***************************************************************************)
(* C36: when several updateProxy calls for one device overlap, then once   *)
(* all their applyProxy sequences have finished the settings http_proxy,   *)
(* global_http_proxy_host and global_http_proxy_port of the device all     *)
(* describe the proxy stored in the registry, the one of the last call.    *)
(***************************************************************************)
C36_SettingsMatchRegistry ==
    \A id \in Ids :
        OverlapOver(id) =>
            /\ devices[id].proxy = px.calls[MaxOverlap].proxy
            /\ \A n \in 1..3 : px.settings[n] = settingValue(devices[id].proxy, n)

\* The process startEmulator spawned last for the serial, 0 when there is none.
LatestFor(s) ==
    LET hs == {h \in Procs : mg.procs[h].serial = s}
    IN IF hs = {} THEN 0 ELSE CHOOSE h \in hs : \A g \in hs : g <= h

\* C37: this.processes holds an entry for a serial exactly while the process
\* started last for that serial is running and was not stopped, and the entry
\* is that process: the exit of an older process never removes it.
C37_ProcessesTracksLatest ==
    \A s \in ManagerSerials :
        LET h == LatestFor(s) IN
        /\ mg.processes[s] # 0 <=> (h # 0 /\ mg.procs[h].state = "running")
        /\ mg.processes[s] # 0 => mg.processes[s] = h

\* C38: once stopEmulator(serial) has returned successfully, every device
\* startEmulator had registered for that serial has status offline.
C38_StoppedDeviceOffline ==
    (mg.stop.pc = "done" /\ mg.stop.outcome = "return") =>
        \A id \in mg.stop.regs : get(devices, id).status = "offline"

\* C39: a startEmulator call that failed (boot timeout or configuration
\* failure) has registered no device, and the process it spawned is neither
\* running nor held in this.processes.
C39_FailedStartLeavesNothing ==
    \A h \in Procs :
        mg.procs[h].pc = "failed" =>
            /\ mg.procs[h].id = 0
            /\ mg.procs[h].state # "running"
            /\ mg.processes[mg.procs[h].serial] # h

\* C40: a start of deviceService.startEmulator passes -wipe-data exactly when
\* it consumed the wipe-once flag; a start that found the flag unset boots
\* without -wipe-data.
C40_WipeDataOnlyWhenConsumed ==
    \A n \in 1..Len(svcStarts) :
        /\ HasWipeData(svcStarts[n]) <=> svcStarts[n].consumed
        /\ ~svcStarts[n].found => ~HasWipeData(svcStarts[n])

====
